---- MODULE Spec2Model ----
(***************************************************************************)
(* The conversation-and-retrieval orchestration of the chatbot (v1.1):     *)
(* the /chat handler of cs_chatbot_v1.1/app.py, ConversationService,       *)
(* RAGService.get_relevant_knowledge and the JSON metrics recorder.        *)
(*                                                                         *)
(* Texts are sequences of one-character strings, so that len(), lower(),   *)
(* the substring test `word in text` and "\n\n".join() are computed.       *)
(* Spec: one request is in flight at a time; pc is its position in chat(). *)
(* ConcurrentSpec: two requests in flight.  MetricsSpec, EmptyLogSpec and   *)
(* GateSpec: the metrics recorder and the retrieval gate called directly.   *)
(* RaceSpec: two track_metrics_v1_1 calls, each a load and a save.          *)
(* CostSpec: the cost estimate in binary64.  LengthSpec: utterances at the  *)
(* length limit.  PromptFilesSpec: the prompt files as chat() finds them.   *)
(* V1_0_Spec: chat() of the earlier version (src/app.py) and its counters.  *)
(* StoreFaultSpec: chat() while the metrics file cannot be read or written. *)
(***************************************************************************)
EXTENDS Integers, Sequences, FiniteSets, TLC

\* ------------------------------------------------------------------ bounds
\* Number of /chat requests served in one behaviour.
MaxTurns == 3

\* --------------------------------------------------------- program constants
\* app.py: len(user_message) > 1000
MAX_MESSAGE_LENGTH == 1000
\* basic_metrics: keep only the last 1000 empty-retrieval entries
MAX_EMPTY_RETRIEVAL_LOG == 1000
\* cost per token in nano-dollars: ((0.150 + 0.600) / 2) dollars per 1_000_000 tokens
COST_NANO_DOLLARS_PER_TOKEN == 375

\* ---------------------------------------------------------------- the texts
german_indicators ==
    << <<"w", "a", "s">>,
       <<"w", "i", "e">>,
       <<"w", "a", "r", "u", "m">>,
       <<"w", "o">>,
       <<"w", "a", "n", "n">>,
       <<"w", "e", "l", "c", "h", "e">>,
       <<"w", "e", "l", "c", "h", "e", "r">>,
       <<"w", "e", "l", "c", "h", "e", "s">>,
       <<"i", "c", "h", " ", "b", "r", "a", "u", "c", "h", "e">>,
       <<"i", "c", "h", " ", "s", "u", "c", "h", "e">>,
       <<"s", "u", "c", "h", "e", " ", "n", "a", "c", "h">>,
       <<"z", "e", "i", "g", " ", "m", "i", "r">>,
       <<"z", "e", "i", "g", "e", " ", "m", "i", "r">>,
       <<"e", "m", "p", "f", "e", "h", "l", "u", "n", "g">>,
       <<"e", "m", "p", "f", "i", "e", "h", "l">>,
       <<"k", "a", "u", "f", "e", "n">>,
       <<"m", "ö", "c", "h", "t", "e">>,
       <<"w", "i", "l", "l", " ", "h", "a", "b", "e", "n">>,
       <<"g", "i", "b", "t", " ", "e", "s">>,
       <<"h", "a", "b", "e", "n", " ", "s", "i", "e">>,
       <<"k", "ö", "n", "n", "e", "n", " ", "s", "i", "e">>,
       <<"k", "a", "n", "n", "s", "t", " ", "d", "u">> >>

english_indicators ==
    << <<"w", "h", "a", "t">>,
       <<"h", "o", "w">>,
       <<"w", "h", "y">>,
       <<"w", "h", "e", "r", "e">>,
       <<"w", "h", "e", "n">>,
       <<"w", "h", "i", "c", "h">>,
       <<"w", "h", "o">>,
       <<"i", " ", "n", "e", "e", "d">>,
       <<"i", " ", "w", "a", "n", "t">>,
       <<"l", "o", "o", "k", "i", "n", "g", " ", "f", "o", "r">>,
       <<"s", "h", "o", "w", " ", "m", "e">>,
       <<"r", "e", "c", "o", "m", "m", "e", "n", "d">>,
       <<"b", "u", "y">>,
       <<"p", "u", "r", "c", "h", "a", "s", "e">>,
       <<"d", "o", " ", "y", "o", "u", " ", "h", "a", "v", "e">>,
       <<"c", "a", "n", " ", "y", "o", "u">>,
       <<"i", "s", " ", "t", "h", "e", "r", "e">> >>

product_indicators ==
    << <<"l", "a", "p", "t", "o", "p">>,
       <<"s", "m", "a", "r", "t", "p", "h", "o", "n", "e">>,
       <<"t", "a", "b", "l", "e", "t">>,
       <<"m", "o", "n", "i", "t", "o", "r">>,
       <<"c", "o", "m", "p", "u", "t", "e", "r">>,
       <<"g", "a", "m", "i", "n", "g">>,
       <<"p", "r", "o", "g", "r", "a", "m", "m", "i", "n", "g">>,
       <<"t", "e", "c", "h">>,
       <<"d", "e", "v", "i", "c", "e">>,
       <<"m", "a", "c", "h", "i", "n", "e">>,
       <<"e", "l", "e", "c", "t", "r", "o", "n", "i", "c">>,
       <<"h", "o", "m", "e", "o", "f", "f", "i", "c", "e">> >>

UPPER == <<"A", "B", "C", "D", "E", "F", "G", "H", "I", "J", "K", "L", "M", "N", "O", "P", "Q", "R", "S", "T", "U", "V", "W", "X", "Y", "Z", "Ä", "Ö", "Ü">>
LOWER == <<"a", "b", "c", "d", "e", "f", "g", "h", "i", "j", "k", "l", "m", "n", "o", "p", "q", "r", "s", "t", "u", "v", "w", "x", "y", "z", "ä", "ö", "ü">>

\* Contents of prompts/sys_prompt.txt and prompts/behaviour_guidelines.txt.
SYS_PROMPT == <<"S", "y", "s">>
BEHAVIOUR_GUIDELINES == <<"R", "u", "l", "e", "s">>

\* Utterances a caller sends.
U_HELLO == <<"H", "e", "l", "l", "o", ",", " ", "m", "y", " ", "n", "a", "m", "e", " ", "i", "s", " ", "S", "a", "r", "a", "h">>
U_LAPTOPS == <<"D", "o", " ", "y", "o", "u", " ", "h", "a", "v", "e", " ", "l", "a", "p", "t", "o", "p", "s", "?">>
U_TOO_LONG == [i \in 1..(MAX_MESSAGE_LENGTH + 1) |-> "x"]
\* A question about laptops of exactly MAX_MESSAGE_LENGTH characters.
U_LONGEST == U_LAPTOPS \o [i \in 1..(MAX_MESSAGE_LENGTH - Len(U_LAPTOPS)) |-> "x"]

\* Passages of the knowledge base and replies of the completion provider.
PASSAGE_1 == <<"K", "B", "1">>
PASSAGE_2 == <<"K", "B", "2">>
REPLY_1 == <<"O", "k">>

\* ------------------------------------------------------------ text helpers
Lower(c) ==
    IF \E i \in 1..Len(UPPER) : UPPER[i] = c
    THEN LOWER[CHOOSE i \in 1..Len(UPPER) : UPPER[i] = c]
    ELSE c

\* str.lower()
lower(s) == [i \in 1..Len(s) |-> Lower(s[i])]

IsSpace(c) == c \in {" ", "\n", "\t", "\r"}

RECURSIVE lstrip(_)
lstrip(s) == IF s # <<>> /\ IsSpace(Head(s)) THEN lstrip(Tail(s)) ELSE s

RECURSIVE rstrip(_)
rstrip(s) ==
    IF s # <<>> /\ IsSpace(s[Len(s)]) THEN rstrip(SubSeq(s, 1, Len(s) - 1)) ELSE s

\* str.strip()
strip(s) == rstrip(lstrip(s))

\* Python's `word in text` on strings: word is a contiguous substring of text.
Contains(text, word) ==
    \E i \in 0..(Len(text) - Len(word)) : SubSeq(text, i + 1, i + Len(word)) = word

\* Variant: the parts are put together with nothing between them.
RECURSIVE join_without_separator(_, _)
join_without_separator(sep, parts) ==
    IF parts = <<>> THEN <<>>
    ELSE parts[1] \o join_without_separator(sep, Tail(parts))

\* sep.join(parts)
RECURSIVE join(_, _)
join(sep, parts) ==
    IF parts = <<>> THEN <<>>
    ELSE IF Len(parts) = 1 THEN parts[1]
    ELSE parts[1] \o sep \o join(sep, Tail(parts))

\* Optional[str]: None, or a string.
None == [is_none |-> TRUE, text |-> <<>>]
Some(t) == [is_none |-> FALSE, text |-> t]
\* Python truthiness of an Optional[str]: None and "" are falsy.
Truthy(v) == ~v.is_none /\ v.text # <<>>

\* {"role": role, "content": content}
Message(role, content) == [role |-> role, content |-> content]

\* len(TOKENIZER.encode(text)): the tokenizer is a library; a token is taken to
\* cover up to four characters.
TokenCount(text) == (Len(text) + 3) \div 4

\* ---------------------------------------------------------- retrieval gate
\* Variant: every utterance passes the gate.
needs_rag_retrieval_always(user_query) == TRUE

\* Variant: the words are looked for in the text as typed.
needs_rag_retrieval_case_sensitive(user_query) ==
    \/ Contains(user_query, <<"?">>)
    \/ \E i \in 1..Len(german_indicators) : Contains(user_query, german_indicators[i])
    \/ \E i \in 1..Len(english_indicators) : Contains(user_query, english_indicators[i])
    \/ \E i \in 1..Len(product_indicators) : Contains(user_query, product_indicators[i])

needs_rag_retrieval(user_query) ==
    LET query_lower == strip(lower(user_query))
    IN  \/ Contains(user_query, <<"?">>)
        \/ \E i \in 1..Len(german_indicators) :
              Contains(query_lower, german_indicators[i])
        \/ \E i \in 1..Len(english_indicators) :
              Contains(query_lower, english_indicators[i])
        \/ \E i \in 1..Len(product_indicators) :
              Contains(query_lower, product_indicators[i])

\* ------------------------------------------------------------- RAG service
\* Variant: only the first document is used.
get_relevant_knowledge_first_only(retrieved_docs) ==
    IF retrieved_docs # <<>> THEN Some(retrieved_docs[1]) ELSE None

\* retrieved_docs: the page_content of the documents the retriever returned.
get_relevant_knowledge(retrieved_docs) ==
    IF retrieved_docs # <<>>
    THEN Some(join(<<"\n", "\n">>, retrieved_docs))
    ELSE None

\* --------------------------------------------------- conversation service
prompt_system_v1_1 ==
    [sys_prompt |-> SYS_PROMPT, behaviour_guidelines |-> BEHAVIOUR_GUIDELINES]

\* Variant: the two prompts in the other order.
initialize_conversation_swapped(prompts) ==
    << Message("system", prompts.behaviour_guidelines),
       Message("system", prompts.sys_prompt) >>

initialize_conversation(prompts) ==
    << Message("system", prompts.sys_prompt),
       Message("system", prompts.behaviour_guidelines) >>

\* Variant: the reply is not kept.
add_assistant_response_dropped(conversation, ai_response_text) == conversation

add_assistant_response(conversation, ai_response_text) ==
    Append(conversation, Message("assistant", ai_response_text))

\* ------------------------------------------------------- metrics recorder
\* The list object that DEFAULT_METRICS_STRUCTURE holds under
\* "empty_retrieval_queries_v1_1".  DEFAULT_METRICS_STRUCTURE.copy() is a shallow
\* copy, so every copy holds this same list, and an append made through a copy
\* is an append to this list: it is state of the process.
VARIABLE default_queries

\* The module-level dict as the process sees it now.
\* last_updated: "" is 0, a timestamp is the (positive) reading of the clock.
DEFAULT_METRICS_STRUCTURE ==
    [ total_requests_v1_1 |-> 0,
      successful_requests_v1_1 |-> 0,
      total_response_time_v1_1 |-> 0,
      total_conversation_tokens_v1_1 |-> 0,
      total_context_tokens_v1_1 |-> 0,
      total_cost_v1_1 |-> 0,
      empty_retrieval_count_v1_1 |-> 0,
      empty_retrieval_queries_v1_1 |-> default_queries,
      last_updated |-> 0 ]

\* dict with d[key] = value set (key added when missing).
SetKey(d, key, value) ==
    [k \in (DOMAIN d) \cup {key} |-> IF k = key THEN value ELSE d[k]]

\* The metrics file after save_json_metrics(metrics_data) at time now.
save_json_metrics(metrics_data, now) ==
    [state |-> "ok", data |-> SetKey(metrics_data, "last_updated", now)]

\* load_json_metrics() on the metrics file f at time now:
\* .data is the dict returned, .file the metrics file afterwards.
load_json_metrics(f, now) ==
    IF f.state = "ok"
    THEN LET migrated ==
                 [k \in (DOMAIN f.data) \cup (DOMAIN DEFAULT_METRICS_STRUCTURE) |->
                     IF k \in DOMAIN f.data THEN f.data[k]
                     ELSE DEFAULT_METRICS_STRUCTURE[k]]
             updated == \E k \in DOMAIN DEFAULT_METRICS_STRUCTURE : k \notin DOMAIN f.data
         IN  IF updated
             THEN [data |-> save_json_metrics(migrated, now).data,
                   file |-> save_json_metrics(migrated, now)]
             ELSE [data |-> f.data, file |-> f]
    ELSE \* the file does not exist, or it is unreadable and is moved away:
         \* a fresh default structure is written
         [data |-> save_json_metrics(DEFAULT_METRICS_STRUCTURE, now).data,
          file |-> save_json_metrics(DEFAULT_METRICS_STRUCTURE, now)]

calculate_static_prompts_tokens_v1_1(conversation_messages) ==
    IF Len(conversation_messages) >= 2
    THEN TokenCount(conversation_messages[1].content \o conversation_messages[2].content)
    ELSE 0

calculate_rag_tokens_v1_1(rag_text) == TokenCount(rag_text)

\* Variant: the success flag is ignored.
track_metrics_v1_1_ignoring_success(f, response_time, conversation_tokens, conversation_messages, rag, success, now) ==
    LET data == load_json_metrics(f, now).data
    IN  save_json_metrics(
            [data EXCEPT !.total_requests_v1_1 = @ + 1,
                         !.successful_requests_v1_1 = @ + 1,
                         !.total_conversation_tokens_v1_1 = @ + conversation_tokens,
                         !.total_response_time_v1_1 = @ + response_time],
            now)

\* Variant: the tokens of the turn are not added.
track_metrics_v1_1_tokens_dropped(f, response_time, conversation_tokens, conversation_messages, rag, success, now) ==
    LET data == load_json_metrics(f, now).data
        counted == [data EXCEPT !.total_requests_v1_1 = @ + 1]
    IN  save_json_metrics(
            IF success
            THEN [counted EXCEPT !.successful_requests_v1_1 = @ + 1,
                                 !.total_response_time_v1_1 = @ + response_time]
            ELSE counted,
            now)

\* The metrics file after track_metrics_v1_1(...) at time now.
\* conversation_messages = <<>> stands for the default None.
track_metrics_v1_1_total_uncounted(f, response_time, conversation_tokens, conversation_messages, rag, success, now) ==
    LET data == load_json_metrics(f, now).data
    IN  save_json_metrics(
            IF success
            THEN [data EXCEPT !.successful_requests_v1_1 = @ + 1,
                              !.total_conversation_tokens_v1_1 = @ + conversation_tokens,
                              !.total_response_time_v1_1 = @ + response_time]
            ELSE data,
            now)

track_metrics_v1_1(f, response_time, conversation_tokens, conversation_messages, rag, success, now) ==
    LET data == load_json_metrics(f, now).data
        counted == [data EXCEPT !.total_requests_v1_1 = @ + 1]
        static_tokens ==
            IF conversation_messages # <<>>
            THEN calculate_static_prompts_tokens_v1_1(conversation_messages)
            ELSE 0
        rag_tokens == IF Truthy(rag) THEN calculate_rag_tokens_v1_1(rag.text) ELSE 0
        context_tokens == static_tokens + rag_tokens
        cost == conversation_tokens * COST_NANO_DOLLARS_PER_TOKEN
        updated ==
            IF success
            THEN [counted EXCEPT
                    !.successful_requests_v1_1 = @ + 1,
                    !.total_conversation_tokens_v1_1 = @ + conversation_tokens,
                    !.total_response_time_v1_1 = @ + response_time,
                    !.total_context_tokens_v1_1 = @ + context_tokens,
                    !.total_cost_v1_1 = @ + cost]
            ELSE counted
    IN  save_json_metrics(updated, now)

\* Variant: list[:n]
FirstN(s, n) == IF Len(s) > n THEN SubSeq(s, 1, n) ELSE s

\* list[-n:]
LastN(s, n) == IF Len(s) > n THEN SubSeq(s, Len(s) - n + 1, Len(s)) ELSE s

\* Variant: the query is logged and not counted.
track_empty_retrieval_v1_1_uncounted(f, user_query, now) ==
    LET data == load_json_metrics(f, now).data
    IN  save_json_metrics(
            [data EXCEPT !.empty_retrieval_queries_v1_1 =
                Append(@, [query |-> user_query, timestamp |-> now])],
            now)

\* The metrics file after track_empty_retrieval_v1_1(user_query) at time now.
track_empty_retrieval_v1_1(f, user_query, now) ==
    LET data == load_json_metrics(f, now).data
        query_entry == [query |-> user_query, timestamp |-> now]
        appended == Append(data.empty_retrieval_queries_v1_1, query_entry)
        rotated ==
            IF Len(appended) > MAX_EMPTY_RETRIEVAL_LOG
            THEN LastN(appended, MAX_EMPTY_RETRIEVAL_LOG)
            ELSE appended
    IN  save_json_metrics(
            [data EXCEPT !.empty_retrieval_count_v1_1 = @ + 1,
                         !.empty_retrieval_queries_v1_1 = rotated],
            now)

\* The default structure as basic_metrics.py writes it: every counter zero, the
\* list empty.
ZeroRecord == [DEFAULT_METRICS_STRUCTURE EXCEPT !.empty_retrieval_queries_v1_1 = <<>>]

\* The dict that load_json_metrics() returns for the metrics file f holds the
\* list of DEFAULT_METRICS_STRUCTURE itself: it is a copy of the default
\* (VALIDATION 23, 46) or the migration put the default value in (VALIDATION 14).
returns_default_list(f) ==
    \/ f.state # "ok"
    \/ "empty_retrieval_queries_v1_1" \notin DOMAIN f.data

\* The list of DEFAULT_METRICS_STRUCTURE after track_empty_retrieval_v1_1(...):
\* VALIDATION 135 appends in place, VALIDATION 139 binds the key to a new list.
default_queries_after_track_empty_retrieval_v1_1(f, user_query, now) ==
    IF returns_default_list(f)
    THEN Append(default_queries, [query |-> user_query, timestamp |-> now])
    ELSE default_queries

\* ------------------------------------------------ binary64 (Python float)
\* The cost estimate of track_metrics_v1_1 is computed in floats.  A natural
\* number is the sequence of its digits to the base 2^11, least significant
\* first and the last one not 0 (none for 0).  A positive float is [m, e]: m its
\* significand, a number of 53 bits, and its value is m * 2^e.  Only what the
\* cost estimate needs is here: positive values and zero, the quotient of two
\* integers, the product with the rate and the sum, each rounded to nearest,
\* ties to even.
SIGNIFICAND_BITS == 53
LIMB_BITS == 11
LIMB == 2048

FloatZero == [m |-> <<>>, e |-> 0]

\* The i-th digit of x, 0 beyond its digits.
Limb(x, i) == IF i >= 1 /\ i <= Len(x) THEN x[i] ELSE 0

\* x without its leading digits 0.
Trim(x) ==
    LET used == {i \in 1..Len(x) : x[i] # 0}
    IN  IF used = {} THEN <<>>
        ELSE SubSeq(x, 1, CHOOSE i \in used : \A j \in used : j <= i)

\* The natural number n < 2^31.
NatOf(n) == Trim([i \in 1..3 |-> (n \div (LIMB ^ (i - 1))) % LIMB])

\* The number of bits of x.
BitLength(x) ==
    IF x = <<>> THEN 0
    ELSE (Len(x) - 1) * LIMB_BITS
         + (CHOOSE k \in 1..LIMB_BITS : 2 ^ (k - 1) <= x[Len(x)] /\ x[Len(x)] < 2 ^ k)

\* x * 2^s
ShiftLeft(x, s) ==
    LET b == s % LIMB_BITS
    IN  Trim([i \in 1..(s \div LIMB_BITS) |-> 0]
             \o [i \in 1..(Len(x) + 1) |->
                   ((Limb(x, i) * (2 ^ b)) % LIMB) + (Limb(x, i - 1) \div (2 ^ (LIMB_BITS - b)))])

\* x \div 2^s
ShiftRight(x, s) ==
    LET b == s % LIMB_BITS
        z == SubSeq(x, (s \div LIMB_BITS) + 1, Len(x))
    IN  Trim([i \in 1..Len(z) |->
                (z[i] \div (2 ^ b)) + ((Limb(z, i + 1) % (2 ^ b)) * (2 ^ (LIMB_BITS - b)))])

\* Bit k of x, bit 0 the least significant.
Bit(x, k) == (Limb(x, (k \div LIMB_BITS) + 1) \div (2 ^ (k % LIMB_BITS))) % 2

\* The bits 0..(k - 1) of x are all 0.
LowBitsZero(x, k) ==
    /\ \A i \in 1..(k \div LIMB_BITS) : Limb(x, i) = 0
    /\ Limb(x, (k \div LIMB_BITS) + 1) % (2 ^ (k % LIMB_BITS)) = 0

\* The digits from the i-th on of x + y + carry * LIMB^(i - 1).
RECURSIVE AddFrom(_, _, _, _)
AddFrom(x, y, i, carry) ==
    IF i > Len(x) /\ i > Len(y)
    THEN IF carry > 0 THEN <<carry>> ELSE <<>>
    ELSE LET sum == Limb(x, i) + Limb(y, i) + carry
         IN  <<sum % LIMB>> \o AddFrom(x, y, i + 1, sum \div LIMB)

\* x + y
Add(x, y) == AddFrom(x, y, 1, 0)

\* The float nearest to x * 2^e for x > 0, ties to even; sticky: the exact
\* value is a little more than x * 2^e.
RoundToFloat(x, e, sticky) ==
    LET len == BitLength(x)
        s == len - SIGNIFICAND_BITS
    IN  IF len <= SIGNIFICAND_BITS
        THEN [m |-> ShiftLeft(x, SIGNIFICAND_BITS - len), e |-> e - (SIGNIFICAND_BITS - len)]
        ELSE LET kept == ShiftRight(x, s)
                 rest == sticky \/ ~LowBitsZero(x, s - 1)
                 up == Bit(x, s - 1) = 1 /\ (rest \/ Bit(kept, 0) = 1)
                 raised == Add(kept, <<1>>)
             IN  IF ~up THEN [m |-> kept, e |-> e + s]
                 ELSE IF BitLength(raised) > SIGNIFICAND_BITS
                 THEN [m |-> ShiftRight(raised, 1), e |-> e + s + 1]
                 ELSE [m |-> raised, e |-> e + s]

\* Long division by d < 2^20, 11 bits at a time: x the quotient so far, with
\* its last fraction bits after the point, r < d the remainder.  Two bits more
\* than a significand are made.
RECURSIVE QuotientFrom(_, _, _, _)
QuotientFrom(r, d, x, fraction) ==
    IF BitLength(x) >= SIGNIFICAND_BITS + 2
    THEN RoundToFloat(x, 0 - fraction, r # 0)
    ELSE LET digit == (r * LIMB) \div d
         IN  QuotientFrom((r * LIMB) % d, d,
                          IF x = <<>> /\ digit = 0 THEN <<>> ELSE <<digit>> \o x,
                          fraction + LIMB_BITS)

\* n / d for integers 0 <= n < 2^31, 0 < d < 2^20
FloatQuotient(n, d) ==
    IF n = 0 THEN FloatZero ELSE QuotientFrom(n % d, d, NatOf(n \div d), 0)

\* Variant: x + y with the smaller term dropped.
FloatSumOfLarger(x, y) ==
    IF x.m = <<>> THEN y
    ELSE IF y.m = <<>> THEN x
    ELSE IF x.e >= y.e THEN x ELSE y

\* x + y
FloatSum(x, y) ==
    IF x.m = <<>> THEN y
    ELSE IF y.m = <<>> THEN x
    ELSE LET low == IF x.e < y.e THEN x.e ELSE y.e
         IN  RoundToFloat(Add(ShiftLeft(x.m, x.e - low), ShiftLeft(y.m, y.e - low)),
                          low, FALSE)

\* x * ((0.150 + 0.600) / 2): the rate is the float 0.375 = 3 * 2^-3.
FloatTimesRate(x) ==
    IF x.m = <<>> THEN FloatZero
    ELSE RoundToFloat(Add(x.m, ShiftLeft(x.m, 1)), x.e - 3, FALSE)

\* The next float above x > 0.
FloatAbove(x) ==
    LET raised == Add(x.m, <<1>>)
    IN  IF BitLength(raised) > SIGNIFICAND_BITS
        THEN [m |-> ShiftRight(raised, 1), e |-> x.e + 1]
        ELSE [m |-> raised, e |-> x.e]

TOKENS_PER_MILLION == 1000000

\* VALIDATION 110: (conversation_tokens / 1_000_000) * ((0.150 + 0.600) / 2)
estimated_cost(conversation_tokens) ==
    FloatTimesRate(FloatQuotient(conversation_tokens, TOKENS_PER_MILLION))

\* total_conversation_tokens_v1_1 and total_cost_v1_1 of the zero record, and
\* no call of track_metrics_v1_1 yet.
NoCost ==
    [ total_conversation_tokens_v1_1 |-> 0,
      total_cost_v1_1 |-> FloatZero,
      turns |-> <<>> ]

\* ------------------------------------------- the earlier version (v1.0)
KNOWLEDGE_BASE == <<"K", "B">>

\* The prompt files that prompt_system opens, and what they hold.
prompt_files ==
    [ sys_prompt |-> SYS_PROMPT \o <<"\n">>,
      behaviour_guidelines |-> BEHAVIOUR_GUIDELINES \o <<"\n">>,
      knowledge_base_techmarkt |-> KNOWLEDGE_BASE \o <<"\n">> ]

\* What prompt_system returns in the except branch: {}.
NoPrompts == [loaded |-> FALSE]

\* prompt_system(): the stripped contents of the three files, or {} when
\* opening one of them raises.
prompt_system(readable) ==
    IF DOMAIN prompt_files \subseteq readable
    THEN [loaded |-> TRUE, content |-> [f \in DOMAIN prompt_files |-> strip(prompt_files[f])]]
    ELSE NoPrompts

\* The value a new session["messages"] gets in chat().
new_conversation_swapped(prompts) ==
    << Message("system", prompts.content.sys_prompt),
       Message("assistant", prompts.content.knowledge_base_techmarkt),
       Message("system", prompts.content.behaviour_guidelines) >>

new_conversation(prompts) ==
    << Message("system", prompts.content.sys_prompt),
       Message("system", prompts.content.behaviour_guidelines),
       Message("assistant", prompts.content.knowledge_base_techmarkt) >>

\* The counters of basic_metrics.py, as Redis holds them (a missing key is 0).
NoCounters ==
    [ total_succ_requests_v1_0 |-> 0,
      total_tokens_v1_0 |-> 0,
      total_response_time_ms_v1_0 |-> 0,
      failed_requests_v1_0 |-> 0 ]

\* r.incr(key, amount): one atomic step of the store.
incr_lost(counters, key, amount) == counters

incr(counters, key, amount) == [counters EXCEPT ![key] = @ + amount]

\* ---------------------------------------------------------------- the state
VARIABLES
    store,             \* session store: per session, the saved session dict
    metrics_file,      \* the metrics JSON file
    rag_content,       \* ConversationService.rag_content
    clock,             \* number of requests received so far; the time of day
    pc,                \* position of the request in flight
    sid,               \* session of the request in flight
    request,           \* its JSON body
    session,           \* its session dict (flask.session)
    ai_response,       \* its ai_response
    outcome,           \* its response
    pre,               \* history: store entry and metrics file when it arrived
    conv0,             \* history: the Conversation after initialization
    retriever_calls,   \* history: queries it passed to the retriever
    completion_calls,  \* history: message sequences it passed to the completion call
    retrieved,         \* history: what the retriever returned to it
    completed,         \* history: whether the completion call was made and returned
    dialogue,          \* history: per session, user message and reply of each successful turn
    archive,           \* the metrics files moved away as unreadable
    parked,            \* the second request in flight: its pc .. completed
    recording,         \* the track_metrics_v1_1 calls between their load and their save
    cost_account,      \* the tokens and the cost of the metrics, the cost as a float
    v1_0,              \* the earlier version: its sessions, counters and requests
    call,              \* history: the operation applied last, with its arguments
    ret                \* history: what that operation returned

vars ==
    << default_queries, store, metrics_file, rag_content, clock, pc, sid, request,
       session, ai_response, outcome, pre, conv0, retriever_calls, completion_calls,
       retrieved, completed, dialogue, archive, parked, recording, cost_account,
       v1_0, call, ret >>

\* What the /chat handler of one request in flight leaves alone.
elsewhere == << archive, parked, recording, cost_account, v1_0, call, ret >>

Sessions == {"s1", "s2"}

\* A session dict: "messages" in session, and session["messages"].
EmptySession == [has_messages |-> FALSE, messages |-> <<>>]

\* JSON bodies of POST /chat: {"message": <text>}, {"message": 5}, {}.
TextRequest(t) == [kind |-> "text", message |-> t]
NumberRequest == [kind |-> "number", message |-> <<>>]
MissingRequest == [kind |-> "missing", message |-> <<>>]

Utterances == {U_HELLO, U_LAPTOPS, U_TOO_LONG}

Requests == {TextRequest(u) : u \in Utterances} \cup {NumberRequest, MissingRequest}

\* What the retriever does with a query: it raises, or returns 0..2 passages.
RetrieverResults ==
    { [ok |-> FALSE, docs |-> <<>>],
      [ok |-> TRUE, docs |-> <<>>],
      [ok |-> TRUE, docs |-> <<PASSAGE_1>>],
      [ok |-> TRUE, docs |-> <<PASSAGE_1, PASSAGE_2>>] }

NotRetrieved == [called |-> FALSE, ok |-> FALSE, docs |-> <<>>]
NotCompleted == [called |-> FALSE, ok |-> FALSE]

\* What the completion call does: it raises, or returns a reply with its usage
\* and the time it took.
CompletionResults ==
    { [ok |-> FALSE, text |-> <<>>, total_tokens |-> 0, response_time |-> 0],
      [ok |-> TRUE, text |-> REPLY_1, total_tokens |-> 100, response_time |-> 2] }

\* Responses of /chat.
NoOutcome == [kind |-> "none", status |-> 0, text |-> <<>>]
AssistantText(t) == [kind |-> "assistant", status |-> 200, text |-> t]
InputTooLong == [kind |-> "input-too-long", status |-> 400, text |-> <<>>]
MalformedInput == [kind |-> "malformed-input", status |-> 400, text |-> <<>>]
ServiceUnavailable == [kind |-> "service-unavailable", status |-> 500, text |-> <<>>]

\* The request context of a handler that is not running.
IdleRequest ==
    [ pc |-> "idle", sid |-> "s1", request |-> MissingRequest, session |-> EmptySession,
      ai_response |-> <<>>, outcome |-> NoOutcome,
      pre |-> [session |-> EmptySession,
               metrics_file |-> [state |-> "absent", data |-> <<>>], turn |-> 0],
      conv0 |-> <<>>, retriever_calls |-> <<>>, completion_calls |-> <<>>,
      retrieved |-> NotRetrieved, completed |-> NotCompleted ]

NoCall == [op |-> "none"]

\* The threads that call the recorder on its own.
Threads == {"t1", "t2"}

\* No track_metrics_v1_1 call has been made; none is in progress.
NotRecording ==
    [ calls |-> [t \in Threads |-> [state |-> "idle"]],
      completed |-> 0,
      overlapped |-> FALSE ]

\* A thread of the v1.0 application that serves no request.
V1_0_Idle ==
    [ pc |-> "idle", sid |-> "s1", session |-> EmptySession,
      prompts |-> "none", created |-> FALSE, tracked |-> 0, response |-> [ok |-> FALSE],
      outcome |-> "none", saved |-> FALSE ]

V1_0_Init ==
    [ store |-> [s \in Sessions |-> EmptySession],
      counters |-> NoCounters,
      threads |-> [t \in Threads |-> V1_0_Idle],
      requests |-> 0,
      track_calls |-> 0,
      overlapped |-> FALSE,
      store_errors |-> 0 ]

Init ==
    /\ default_queries = <<>>
    /\ archive = <<>>
    /\ parked = IdleRequest
    /\ recording = NotRecording
    /\ cost_account = NoCost
    /\ v1_0 = V1_0_Init
    /\ call = NoCall
    /\ ret = NoCall
    /\ store = [s \in Sessions |-> EmptySession]
    /\ metrics_file = [state |-> "absent", data |-> <<>>]
    /\ rag_content = None
    /\ clock = 0
    /\ pc = "idle"
    /\ sid = "s1"
    /\ request = MissingRequest
    /\ session = EmptySession
    /\ ai_response = <<>>
    /\ outcome = NoOutcome
    /\ pre = [session |-> EmptySession, metrics_file |-> metrics_file, turn |-> 0]
    /\ conv0 = <<>>
    /\ retriever_calls = <<>>
    /\ completion_calls = <<>>
    /\ retrieved = NotRetrieved
    /\ completed = NotCompleted
    /\ dialogue = [s \in Sessions |-> <<>>]

\* Variant: the limit is off by one.
too_long_off_by_one(user_message) == Len(user_message) > MAX_MESSAGE_LENGTH + 1

\* app.py 183: len(user_message) > 1000
too_long_at_limit(user_message) == Len(user_message) >= MAX_MESSAGE_LENGTH

too_long(user_message) == Len(user_message) > MAX_MESSAGE_LENGTH

\* Variant: the conversation is started again with the user message.
with_user_message_restarting(conversation, user_message) ==
    << Message("user", user_message) >>

\* conversation_service.py 76
with_user_message(conversation, user_message) ==
    Append(conversation, Message("user", user_message))

\* Variant: the retrieved knowledge is not put into the conversation.
with_context_dropped(conversation, relevant_knowledge) == conversation

\* conversation_service.py 81-82
with_context(conversation, relevant_knowledge) ==
    IF Truthy(relevant_knowledge)
    THEN Append(conversation, Message("system", relevant_knowledge.text))
    ELSE conversation

\* The request arrives: the session is opened from the store, and chat() runs up
\* to the input validation (app.py 178-185).
chat_validate(s, r) ==
    /\ pc = "idle"
    /\ clock < MaxTurns
    /\ clock' = clock + 1
    /\ sid' = s
    /\ request' = r
    /\ session' = store[s]
    /\ ai_response' = <<>>
    /\ pre' = [session |-> store[s], metrics_file |-> metrics_file, turn |-> clock + 1]
    /\ conv0' = <<>>
    /\ retriever_calls' = <<>>
    /\ completion_calls' = <<>>
    /\ retrieved' = NotRetrieved
    /\ completed' = NotCompleted
    /\ IF r.kind = "missing"
       THEN \* request.json["message"] raises KeyError
            pc' = "KeyError" /\ outcome' = NoOutcome
       ELSE IF r.kind # "text"
       THEN \* len(user_message) raises TypeError
            pc' = "Exception" /\ outcome' = NoOutcome
       ELSE IF too_long(r.message)
       THEN pc' = "respond" /\ outcome' = InputTooLong
       ELSE pc' = "init" /\ outcome' = NoOutcome
    /\ UNCHANGED <<default_queries, store, metrics_file, rag_content, dialogue>>
    /\ UNCHANGED elsewhere

\* Variant: the conversation is initialized on every request.
chat_init_always ==
    /\ pc = "init"
    /\ session' = [has_messages |-> TRUE,
                   messages |-> initialize_conversation(prompt_system_v1_1)]
    /\ conv0' = session'.messages
    /\ pc' = "build"
    /\ UNCHANGED elsewhere
    /\ UNCHANGED <<default_queries, store, metrics_file, rag_content, clock, sid, request,
                   ai_response, outcome, pre, retriever_calls, completion_calls,
                   retrieved, completed, dialogue>>

\* app.py 187-190
chat_init ==
    /\ pc = "init"
    /\ session' =
          IF ~session.has_messages
          THEN [has_messages |-> TRUE,
                messages |-> initialize_conversation(prompt_system_v1_1)]
          ELSE session
    /\ conv0' = session'.messages
    /\ pc' = "build"
    /\ UNCHANGED elsewhere
    /\ UNCHANGED <<default_queries, store, metrics_file, rag_content, clock, sid, request,
                   ai_response, outcome, pre, retriever_calls, completion_calls,
                   retrieved, completed, dialogue>>

\* app.py 193: ConversationService.build_conversation_with_context.
\* The list in session["messages"] is changed in place.
build_conversation_with_context ==
    /\ pc = "build"
    /\ LET user_message == request.message
           conversation == with_user_message(session.messages, user_message)
       IN  IF needs_rag_retrieval(user_message)
           THEN \E res \in RetrieverResults :
                  /\ retriever_calls' = Append(retriever_calls, user_message)
                  /\ retrieved' = [called |-> TRUE, ok |-> res.ok, docs |-> res.docs]
                  /\ IF ~res.ok
                     THEN \* the retriever raises: nothing catches it in chat()
                          /\ session' = [session EXCEPT !.messages = conversation]
                          /\ pc' = "Exception"
                          /\ UNCHANGED <<default_queries, metrics_file, rag_content>>
                     ELSE LET relevant_knowledge == get_relevant_knowledge(res.docs)
                          IN  /\ session' = [session EXCEPT !.messages =
                                     with_context(conversation, relevant_knowledge)]
                              /\ IF Truthy(relevant_knowledge)
                                 THEN /\ rag_content' = relevant_knowledge
                                      /\ UNCHANGED <<default_queries, metrics_file>>
                                 ELSE /\ metrics_file' = track_empty_retrieval_v1_1(
                                             metrics_file, user_message, clock)
                                      /\ default_queries' =
                                             default_queries_after_track_empty_retrieval_v1_1(
                                                 metrics_file, user_message, clock)
                                      /\ rag_content' = None
                              /\ pc' = "complete"
           ELSE /\ session' = [session EXCEPT !.messages = conversation]
                /\ rag_content' = None
                /\ pc' = "complete"
                /\ UNCHANGED <<default_queries, metrics_file, retriever_calls, retrieved>>
    /\ UNCHANGED elsewhere
    /\ UNCHANGED <<store, clock, sid, request, ai_response, outcome, pre, conv0,
                   completion_calls, completed, dialogue>>

\* Variant: a completion call that failed is made once more.
get_ai_response_retrying ==
    /\ pc = "complete"
    /\ \E res \in CompletionResults :
          /\ completion_calls' = Append(completion_calls, session.messages)
          /\ completed' = [called |-> TRUE, ok |-> res.ok]
          /\ IF res.ok
             THEN /\ ai_response' = res.text
                  /\ metrics_file' = track_metrics_v1_1(metrics_file,
                         res.response_time, res.total_tokens, session.messages,
                         rag_content, TRUE, clock)
                  /\ pc' = "add"
             ELSE IF completion_calls = <<>>
             THEN /\ pc' = "complete"
                  /\ UNCHANGED <<ai_response, metrics_file>>
             ELSE /\ metrics_file' = track_metrics_v1_1(metrics_file, 0, 0, <<>>,
                         None, FALSE, clock)
                  /\ pc' = "Exception"
                  /\ UNCHANGED ai_response
    /\ UNCHANGED elsewhere
    /\ UNCHANGED <<default_queries, store, rag_content, clock, sid, request, session, outcome, pre,
                   conv0, retriever_calls, retrieved, dialogue>>

\* app.py 196: ConversationService.get_ai_response(messages)
get_ai_response ==
    /\ pc = "complete"
    /\ \E res \in CompletionResults :
          /\ completion_calls' = Append(completion_calls, session.messages)
          /\ completed' = [called |-> TRUE, ok |-> res.ok]
          /\ IF res.ok
             THEN /\ ai_response' = res.text
                  /\ metrics_file' = track_metrics_v1_1(metrics_file,
                         res.response_time, res.total_tokens, session.messages,
                         rag_content, TRUE, clock)
                  /\ pc' = "add"
             ELSE \* except Exception: the failure is tracked and raised again
                  /\ metrics_file' = track_metrics_v1_1(metrics_file, 0, 0, <<>>,
                         None, FALSE, clock)
                  /\ pc' = "Exception"
                  /\ UNCHANGED ai_response
    /\ UNCHANGED elsewhere
    /\ UNCHANGED <<default_queries, store, rag_content, clock, sid, request, session, outcome, pre,
                   conv0, retriever_calls, retrieved, dialogue>>

\* app.py 199-204: the reply is appended, the session set, the reply returned.
chat_reply ==
    /\ pc = "add"
    /\ session' = [session EXCEPT
                     !.messages = add_assistant_response(session.messages, ai_response)]
    /\ outcome' = AssistantText(ai_response)
    /\ dialogue' = [dialogue EXCEPT ![sid] =
                      @ \o << Message("user", request.message),
                              Message("assistant", ai_response) >>]
    /\ pc' = "respond"
    /\ UNCHANGED elsewhere
    /\ UNCHANGED <<default_queries, store, metrics_file, rag_content, clock, sid, request,
                   ai_response, pre, conv0, retriever_calls, completion_calls,
                   retrieved, completed>>

\* app.py 219-223: an exception no handler knows becomes a 500.
handle_internal_error ==
    /\ pc = "Exception"
    /\ metrics_file' = track_metrics_v1_1(metrics_file, 0, 0, <<>>, None, FALSE, clock)
    /\ outcome' = ServiceUnavailable
    /\ pc' = "respond"
    /\ UNCHANGED elsewhere
    /\ UNCHANGED <<default_queries, store, rag_content, clock, sid, request, session, ai_response,
                   pre, conv0, retriever_calls, completion_calls, retrieved, completed, dialogue>>

\* app.py 235-238
handle_missing_json_key ==
    /\ pc = "KeyError"
    /\ outcome' = MalformedInput
    /\ pc' = "respond"
    /\ UNCHANGED elsewhere
    /\ UNCHANGED <<default_queries, store, metrics_file, rag_content, clock, sid, request, session,
                   ai_response, pre, conv0, retriever_calls, completion_calls,
                   retrieved, completed, dialogue>>

\* Variant: the session is written under every session identity.
save_session_everywhere ==
    /\ pc = "respond"
    /\ store' = IF session.has_messages THEN [s \in Sessions |-> session] ELSE store
    /\ pc' = "idle"
    /\ UNCHANGED elsewhere
    /\ UNCHANGED <<default_queries, metrics_file, rag_content, clock, sid, request, session,
                   ai_response, outcome, pre, conv0, retriever_calls,
                   completion_calls, retrieved, completed, dialogue>>

\* The response is sent: the session interface writes a session dict that is
\* not empty back to the store (app.py 32-37, Session(app)).
save_session ==
    /\ pc = "respond"
    /\ store' = IF session.has_messages THEN [store EXCEPT ![sid] = session] ELSE store
    /\ pc' = "idle"
    /\ UNCHANGED elsewhere
    /\ UNCHANGED <<default_queries, metrics_file, rag_content, clock, sid, request, session,
                   ai_response, outcome, pre, conv0, retriever_calls,
                   completion_calls, retrieved, completed, dialogue>>

Next ==
    \/ \E s \in Sessions, r \in Requests : chat_validate(s, r)
    \/ chat_init
    \/ build_conversation_with_context
    \/ get_ai_response
    \/ chat_reply
    \/ handle_internal_error
    \/ handle_missing_json_key
    \/ save_session

Spec == Init /\ [][Next]_vars

\* ------------------------------------------- the metrics recorder on its own
\* Number of calls of the recorder in one behaviour.
MaxMetricsCalls == 3

\* round(num / den, n) in units of 10^-n, for num scaled to those units: the
\* nearest integers.  A quotient that lies half way is rounded on its float,
\* which lies on either side.
Rounded(num, den) ==
    LET q == num \div den
        r == num % den
    IN  IF 2 * r < den THEN {q}
        ELSE IF 2 * r > den THEN {q + 1}
        ELSE {q, q + 1}

\* Variant: the averages are taken over all requests.
averages_per_request(metrics) ==
    IF metrics.total_requests_v1_1 > 0
    THEN [ avg_response_time |->
               Rounded(metrics.total_response_time_v1_1 * 100, metrics.total_requests_v1_1),
           success_rate |->
               Rounded(metrics.successful_requests_v1_1 * 1000, metrics.total_requests_v1_1),
           avg_conversation_tokens |->
               Rounded(metrics.total_conversation_tokens_v1_1 * 10, metrics.total_requests_v1_1),
           avg_context_tokens |->
               Rounded(metrics.total_context_tokens_v1_1 * 10, metrics.total_requests_v1_1),
           avg_cost_per_conversation |->
               Rounded(metrics.total_cost_v1_1, metrics.total_requests_v1_1 * 1000) ]
    ELSE [ avg_response_time |-> {0}, success_rate |-> {0},
           avg_conversation_tokens |-> {0}, avg_context_tokens |-> {0},
           avg_cost_per_conversation |-> {0} ]

\* VALIDATION 158-170: for each derived value, the values round() can give it.
\* avg_response_time is in 1/100 s, success_rate in 1/10 percent, the token
\* averages in 1/10 token, avg_cost_per_conversation in 1/1000000 dollar.
averages(metrics) ==
    IF metrics.successful_requests_v1_1 > 0
    THEN [ avg_response_time |->
               Rounded(metrics.total_response_time_v1_1 * 100, metrics.successful_requests_v1_1),
           success_rate |->
               Rounded(metrics.successful_requests_v1_1 * 1000, metrics.total_requests_v1_1),
           avg_conversation_tokens |->
               Rounded(metrics.total_conversation_tokens_v1_1 * 10, metrics.successful_requests_v1_1),
           avg_context_tokens |->
               Rounded(metrics.total_context_tokens_v1_1 * 10, metrics.successful_requests_v1_1),
           avg_cost_per_conversation |->
               Rounded(metrics.total_cost_v1_1, metrics.successful_requests_v1_1 * 1000) ]
    ELSE [ avg_response_time |-> {0}, success_rate |-> {0},
           avg_conversation_tokens |-> {0}, avg_context_tokens |-> {0},
           avg_cost_per_conversation |-> {0} ]

\* The dicts get_metrics_summary_v1_1() can return for the metrics file f.
get_metrics_summary_v1_1(f, now) ==
    LET metrics == load_json_metrics(f, now).data
        avg == averages(metrics)
    IN  IF metrics.successful_requests_v1_1 > 0 /\ metrics.total_requests_v1_1 = 0
        THEN \* ZeroDivisionError, VALIDATION 178-180
             { [error |-> "Unable to retrieve v1.1 metrics"] }
        ELSE
        { [ total_requests_v1_1 |-> metrics.total_requests_v1_1,
            average_response_time_v1_1 |-> rt,
            success_rate_v1_1 |-> sr,
            average_tokens_per_conversation_v1_1 |-> ct,
            average_context_size_v1_1 |-> xt,
            average_cost_per_conversation_v1_1 |-> cost,
            empty_retrieval_count_v1_1 |-> metrics.empty_retrieval_count_v1_1,
            empty_retrieval_queries_v1_1 |-> metrics.empty_retrieval_queries_v1_1,
            last_updated |-> metrics.last_updated ] :
          rt \in avg.avg_response_time,
          sr \in avg.success_rate,
          ct \in avg.avg_conversation_tokens,
          xt \in avg.avg_context_tokens,
          cost \in avg.avg_cost_per_conversation }

\* VALIDATION 29-43: the backups after load_json_metrics() on the metrics file f;
\* a file that cannot be parsed is renamed to a backup.
archive_after_load_json_metrics(f) ==
    IF f.state = "corrupted" THEN Append(archive, f) ELSE archive

\* A stored record of an earlier format: without the fields of the cost and
\* context accounting and of the empty-retrieval log.
OLD_RECORD_COUNTERS ==
    [ total_requests_v1_1 |-> 3,
      successful_requests_v1_1 |-> 2,
      total_response_time_v1_1 |-> 4,
      total_conversation_tokens_v1_1 |-> 200,
      last_updated |-> 1 ]

OldRecords == {OLD_RECORD_COUNTERS}

\* Arguments of track_metrics_v1_1 as the handlers pass them: a completed
\* turn with its usage, and (0, 0, 0, success=False).
TrackArguments ==
    { [response_time |-> 2, conversation_tokens |-> t,
       conversation_messages |-> initialize_conversation(prompt_system_v1_1),
       success |-> TRUE] : t \in {100, 250} }
    \cup { [response_time |-> 0, conversation_tokens |-> 0,
            conversation_messages |-> <<>>, success |-> FALSE] }

\* A call without the call it came after.
Before(c) == [k \in (DOMAIN c) \ {"after"} |-> c[k]]

\* The variables the recorder does not touch.
chat_vars ==
    << store, rag_content, pc, sid, request, session, ai_response, outcome, pre,
       conv0, retriever_calls, completion_calls, retrieved, completed, dialogue,
       parked, recording, cost_account, v1_0 >>

\* track_metrics_v1_1(response_time, conversation_tokens, conversation_messages,
\* success=...) is called.
metrics_track(a) ==
    /\ clock < MaxMetricsCalls
    /\ clock' = clock + 1
    /\ metrics_file' = track_metrics_v1_1(metrics_file, a.response_time,
           a.conversation_tokens, a.conversation_messages, None, a.success, clock')
    /\ archive' = archive_after_load_json_metrics(metrics_file)
    /\ call' = [op |-> "track_metrics_v1_1", file |-> metrics_file,
                response_time |-> a.response_time,
                conversation_tokens |-> a.conversation_tokens,
                success |-> a.success, after |-> Before(call)]
    /\ ret' = NoCall
    /\ UNCHANGED default_queries
    /\ UNCHANGED chat_vars

\* track_empty_retrieval_v1_1(user_query) is called.
metrics_track_empty_retrieval(user_query) ==
    /\ clock < MaxMetricsCalls
    /\ clock' = clock + 1
    /\ metrics_file' = track_empty_retrieval_v1_1(metrics_file, user_query, clock')
    /\ default_queries' =
           default_queries_after_track_empty_retrieval_v1_1(metrics_file, user_query, clock')
    /\ archive' = archive_after_load_json_metrics(metrics_file)
    /\ call' = [op |-> "track_empty_retrieval_v1_1", file |-> metrics_file,
                user_query |-> user_query, after |-> Before(call)]
    /\ ret' = NoCall
    /\ UNCHANGED chat_vars

\* get_metrics_summary_v1_1() is called (GET /metrics, app.py 207-215).
metrics_summary ==
    /\ clock < MaxMetricsCalls
    /\ clock' = clock + 1
    /\ ret' \in get_metrics_summary_v1_1(metrics_file, clock')
    /\ metrics_file' = load_json_metrics(metrics_file, clock').file
    /\ archive' = archive_after_load_json_metrics(metrics_file)
    /\ call' = [op |-> "get_metrics_summary_v1_1", file |-> metrics_file,
                after |-> Before(call)]
    /\ UNCHANGED default_queries
    /\ UNCHANGED chat_vars

\* load_json_metrics() is called.
metrics_load ==
    /\ clock < MaxMetricsCalls
    /\ clock' = clock + 1
    /\ ret' = load_json_metrics(metrics_file, clock').data
    /\ metrics_file' = load_json_metrics(metrics_file, clock').file
    /\ archive' = archive_after_load_json_metrics(metrics_file)
    /\ call' = [op |-> "load_json_metrics", file |-> metrics_file,
                default_list |-> default_queries, after |-> Before(call)]
    /\ UNCHANGED default_queries
    /\ UNCHANGED chat_vars

\* The metrics file becomes unreadable: what json.load finds is not JSON.
metrics_file_corrupted ==
    /\ metrics_file.state = "ok"
    /\ metrics_file' = [metrics_file EXCEPT !.state = "corrupted"]
    /\ call' = [op |-> "corrupted", file |-> metrics_file, after |-> Before(call)]
    /\ ret' = NoCall
    /\ UNCHANGED <<default_queries, clock, archive>>
    /\ UNCHANGED chat_vars

\* A record of an earlier format is put in the place of the metrics file.
metrics_file_of_old_format(old) ==
    /\ metrics_file # [state |-> "ok", data |-> old]
    /\ metrics_file' = [state |-> "ok", data |-> old]
    /\ call' = [op |-> "replaced", file |-> metrics_file, after |-> Before(call)]
    /\ ret' = NoCall
    /\ UNCHANGED <<default_queries, clock, archive>>
    /\ UNCHANGED chat_vars

MetricsNext ==
    \/ \E a \in TrackArguments : metrics_track(a)
    \/ metrics_track_empty_retrieval(U_LAPTOPS)
    \/ metrics_summary
    \/ metrics_load
    \/ metrics_file_corrupted
    \/ \E old \in OldRecords : metrics_file_of_old_format(old)

MetricsSpec == Init /\ [][MetricsNext]_vars

\* ------------------------------------- the empty-retrieval log filling up
\* Number of track_empty_retrieval_v1_1 calls in one behaviour: past the 1000
\* entries the log keeps.
MaxEmptyRetrievals == 1002

\* The utterance of the n-th call.
QueryOf(n) == IF n % 2 = 1 THEN U_LAPTOPS ELSE U_HELLO

\* The next track_empty_retrieval_v1_1(user_query) of a process that makes
\* these calls only, starting without a metrics file.
empty_retrieval_call ==
    /\ clock < MaxEmptyRetrievals
    /\ clock' = clock + 1
    /\ metrics_file' = track_empty_retrieval_v1_1(metrics_file, QueryOf(clock'), clock')
    /\ default_queries' =
           default_queries_after_track_empty_retrieval_v1_1(
               metrics_file, QueryOf(clock'), clock')
    /\ archive' = archive_after_load_json_metrics(metrics_file)
    /\ call' = [op |-> "track_empty_retrieval_v1_1", file |-> <<>>,
                user_query |-> QueryOf(clock'), after |-> NoCall]
    /\ ret' = NoCall
    /\ UNCHANGED chat_vars

EmptyLogNext == empty_retrieval_call

EmptyLogSpec == Init /\ [][EmptyLogNext]_vars

\* ------------------------------------------------ the retrieval gate on its own
\* Length of the utterances made of the characters of QueryAlphabet.
MaxQueryLen == 3

\* Characters of "wo", "who", "how" in both cases, the question mark, the blank.
QueryAlphabet == {"w", "o", "h", "W", "?", " "}

U_THANKS == <<"T", "h", "a", "n", "k", "s", ",", " ", "b", "y", "e">>
U_WOW == <<"W", "o", "w">>
U_KAUFEN == <<"K", "A", "U", "F", "E", "N", " ", "b", "i", "t", "t", "e">>
U_MOECHTE == <<" ", "I", "c", "h", " ", "M", "Ö", "C", "H", "T", "E", " ">>

\* The utterances the gate is applied to.
Queries ==
    UNION { [1..n -> QueryAlphabet] : n \in 0..MaxQueryLen }
    \cup {U_HELLO, U_LAPTOPS, U_THANKS, U_WOW, U_KAUFEN, U_MOECHTE}

\* needs_rag_retrieval(user_query) is called.
gate_call(user_query) ==
    /\ call.op = "none"
    /\ call' = [op |-> "needs_rag_retrieval", user_query |-> user_query]
    /\ ret' = needs_rag_retrieval(user_query)
    /\ UNCHANGED <<default_queries, metrics_file, clock, archive>>
    /\ UNCHANGED chat_vars

GateNext == \E user_query \in Queries : gate_call(user_query)

GateSpec == Init /\ [][GateNext]_vars

\* ------------------------------- track_metrics_v1_1 calls from two threads
\* track_metrics_v1_1 loads the file, changes the dict it got and saves it
\* (VALIDATION 94, 97-112, 115); no lock is held in between, so the load and
\* the save of one call are two steps of the file.

\* Number of track_metrics_v1_1 calls in one behaviour.
MaxRecordCalls == 3

\* The state of a request handler: chat_vars without recording.
handler_vars ==
    << store, rag_content, pc, sid, request, session, ai_response, outcome, pre,
       conv0, retriever_calls, completion_calls, retrieved, completed, dialogue,
       parked, cost_account, v1_0 >>

\* Thread t enters track_metrics_v1_1(...) and loads the metrics
\* (VALIDATION 94).
record_load(t, a) ==
    /\ recording.calls[t].state = "idle"
    /\ clock < MaxRecordCalls
    /\ clock' = clock + 1
    /\ metrics_file' = load_json_metrics(metrics_file, clock').file
    /\ archive' = archive_after_load_json_metrics(metrics_file)
    /\ recording' =
          [recording EXCEPT
             !.calls[t] = [state |-> "loaded",
                           data |-> load_json_metrics(metrics_file, clock').data,
                           arguments |-> a],
             !.overlapped = @ \/ \E u \in Threads \ {t} :
                                    recording.calls[u].state = "loaded"]
    /\ UNCHANGED <<default_queries, call, ret>>
    /\ UNCHANGED handler_vars

\* Variant: the call returns without having saved.
record_save_skipped(t) ==
    /\ recording.calls[t].state = "loaded"
    /\ recording' = [recording EXCEPT !.calls[t] = [state |-> "idle"],
                                      !.completed = @ + 1]
    /\ UNCHANGED <<default_queries, metrics_file, clock, archive, call, ret>>
    /\ UNCHANGED handler_vars

\* Thread t changes the dict it loaded and saves it (VALIDATION 97-115): the
\* file becomes what track_metrics_v1_1 makes of a file with that dict.
record_save(t) ==
    /\ recording.calls[t].state = "loaded"
    /\ LET own == recording.calls[t]
       IN  metrics_file' =
              track_metrics_v1_1([state |-> "ok", data |-> own.data],
                  own.arguments.response_time, own.arguments.conversation_tokens,
                  own.arguments.conversation_messages, None,
                  own.arguments.success, clock)
    /\ recording' = [recording EXCEPT !.calls[t] = [state |-> "idle"],
                                      !.completed = @ + 1]
    /\ UNCHANGED <<default_queries, clock, archive, call, ret>>
    /\ UNCHANGED handler_vars

RaceNext ==
    \/ \E t \in Threads, a \in TrackArguments : record_load(t, a)
    \/ \E t \in Threads : record_save(t)

RaceSpec == Init /\ [][RaceNext]_vars

\* ------------------------------------------------ the cost estimate in floats
\* Spec and MetricsSpec keep total_cost_v1_1 exactly, in nano-dollars.  Here
\* the two fields of the record that the cost estimate is about are kept as
\* track_metrics_v1_1 computes them: the cost in binary64.

\* Number of track_metrics_v1_1 calls in one behaviour.
MaxCostCalls == 3

\* The tokens of a successful turn.
CostTokens == {100, 137, 250, 999}

\* What track_metrics_v1_1(response_time, conversation_tokens, success=...)
\* makes of the tokens and the cost (VALIDATION 98-111).
track_metrics_v1_1_cost(account, conversation_tokens, success) ==
    [ total_conversation_tokens_v1_1 |->
          IF success
          THEN account.total_conversation_tokens_v1_1 + conversation_tokens
          ELSE account.total_conversation_tokens_v1_1,
      total_cost_v1_1 |->
          IF success
          THEN FloatSum(account.total_cost_v1_1, estimated_cost(conversation_tokens))
          ELSE account.total_cost_v1_1,
      turns |-> Append(account.turns,
                       [conversation_tokens |-> conversation_tokens, success |-> success]) ]

\* track_metrics_v1_1 is called.
cost_track(conversation_tokens, success) ==
    /\ Len(cost_account.turns) < MaxCostCalls
    /\ cost_account' = track_metrics_v1_1_cost(cost_account, conversation_tokens, success)
    /\ UNCHANGED <<default_queries, metrics_file, clock, archive, recording, call, ret>>
    /\ UNCHANGED <<store, rag_content, pc, sid, request, session, ai_response, outcome,
                   pre, conv0, retriever_calls, completion_calls, retrieved, completed,
                   dialogue, parked, v1_0>>

CostNext ==
    \/ \E t \in CostTokens : cost_track(t, TRUE)
    \/ cost_track(0, FALSE)

CostSpec == Init /\ [][CostNext]_vars

\* ------------------------------------------- the earlier version (v1.0)
\* chat() of src/app.py, served by two threads; the counters of
\* basic_metrics.py are incremented by atomic steps of the store.

\* Number of /chat requests received in one behaviour.
MaxV1_0Requests == 2

\* Every variable of the v1.1 application.
v1_1_vars ==
    << default_queries, store, metrics_file, rag_content, clock, pc, sid, request,
       session, ai_response, outcome, pre, conv0, retriever_calls, completion_calls,
       retrieved, completed, dialogue, archive, parked, recording, cost_account,
       call, ret >>

V1_0_Requests == {TextRequest(U_HELLO), TextRequest(U_TOO_LONG), MissingRequest}

\* What client.chat.completions.create gives: a response with a reply, a
\* response without choices, or an exception.
\* The prompt files that can be opened: all of them, or all but one.
ReadableFiles ==
    {DOMAIN prompt_files} \cup {(DOMAIN prompt_files) \ {f} : f \in DOMAIN prompt_files}

V1_0_Responses ==
    { [ok |-> TRUE, choices |-> 1, content |-> REPLY_1, total_tokens |-> 100, time_ms |-> 1200],
      [ok |-> TRUE, choices |-> 0, content |-> <<>>, total_tokens |-> 100, time_ms |-> 1200],
      [ok |-> FALSE] }

\* Thread t is inside track_metrics.
Tracking(t) == v1_0.threads[t].pc \in {"succ", "tokens", "time", "failed"}

\* The request of thread t ends: the response is sent and the session saved.
v1_0_ended(t, s, session_after, prompts, outcome_kind) ==
    [v1_0 EXCEPT !.threads[t] = [@ EXCEPT !.pc = "idle", !.sid = "s1", !.session = EmptySession,
                                          !.response = [ok |-> FALSE],
                                          !.prompts = prompts, !.outcome = outcome_kind,
                                          !.saved = session_after.has_messages],
                 !.store[s] = session_after]

\* chat(), POST, lines 133-187: the health check of the store, the request
\* body, the first turn of a session, the user message, the client.
v1_0_chat(t, s, r, healthy, readable, client_created) ==
    /\ v1_0.threads[t].pc = "idle"
    /\ v1_0.requests < MaxV1_0Requests
    /\ LET stored == v1_0.store[s]
           prompts == prompt_system(readable)
           fresh == [v1_0 EXCEPT !.requests = @ + 1, !.threads[t] = V1_0_Idle]
           ended(session_after, loaded, kind) ==
               [v1_0_ended(t, s, session_after, loaded, kind) EXCEPT
                    !.requests = @ + 1, !.threads[t].created = FALSE,
                    !.threads[t].tracked = 0, !.threads[t].response = [ok |-> FALSE]]
           seeded == IF stored.has_messages THEN stored
                     ELSE [has_messages |-> TRUE, messages |-> new_conversation(prompts)]
           asked == [seeded EXCEPT !.messages = Append(@, Message("user", r.message))]
           loaded == IF stored.has_messages THEN "none" ELSE "loaded"
       IN  v1_0' =
             IF ~healthy THEN ended(stored, "none", "service-unavailable")
             ELSE IF r.kind # "text" THEN ended(stored, "none", "service-unavailable")
             ELSE IF too_long(r.message) THEN ended(stored, "none", "input-too-long")
             ELSE IF ~stored.has_messages /\ prompts = NoPrompts
                  THEN ended(stored, "failed", "unreliable")
             ELSE IF ~client_created THEN ended(asked, loaded, "service-unavailable")
             ELSE [fresh EXCEPT !.threads[t] =
                      [V1_0_Idle EXCEPT !.pc = "create", !.sid = s, !.session = asked,
                                        !.prompts = loaded]]
    /\ UNCHANGED v1_1_vars

\* chat(), lines 191-204: the completion call.
v1_0_create(t, response) ==
    /\ v1_0.threads[t].pc = "create"
    /\ v1_0' = [v1_0 EXCEPT !.threads[t].created = TRUE,
                             !.threads[t].response = response,
                             !.threads[t].pc = IF response.ok THEN "succ" ELSE "failed",
                             !.overlapped = @ \/ \E u \in Threads \ {t} : Tracking(u)]
    /\ UNCHANGED v1_1_vars

\* track_metrics: one r.incr of the store, which raises or not; the call
\* returns after its last increment, or from its except branch.
v1_0_incr(t, raises) ==
    /\ Tracking(t)
    /\ LET th == v1_0.threads[t]
           after_increment ==
               IF raises THEN v1_0.counters
               ELSE CASE th.pc = "succ" -> incr(v1_0.counters, "total_succ_requests_v1_0", 1)
                      [] th.pc = "tokens" -> incr(v1_0.counters, "total_tokens_v1_0", th.response.total_tokens)
                      [] th.pc = "time" -> incr(v1_0.counters, "total_response_time_ms_v1_0", th.response.time_ms)
                      [] th.pc = "failed" -> incr(v1_0.counters, "failed_requests_v1_0", 1)
           returns == raises \/ th.pc \in {"time", "failed"}
           counted == [v1_0 EXCEPT !.counters = after_increment,
                                   !.track_calls = IF returns THEN @ + 1 ELSE @,
                                   !.threads[t].tracked = IF returns THEN @ + 1 ELSE @,
                                   !.store_errors = IF raises /\ th.pc \in {"succ", "failed"}
                                                    THEN @ + 1 ELSE @]
       IN  v1_0' =
             IF ~returns
             THEN [counted EXCEPT !.threads[t].pc = IF th.pc = "succ" THEN "tokens" ELSE "time"]
             ELSE IF th.pc = "failed"
                  THEN [v1_0_ended(t, th.sid, th.session, th.prompts, "service-unavailable") EXCEPT
                            !.counters = counted.counters,
                            !.track_calls = counted.track_calls,
                            !.threads[t].tracked = counted.threads[t].tracked,
                            !.store_errors = counted.store_errors]
             ELSE [counted EXCEPT !.threads[t].pc =
                       IF th.response.choices = 0 THEN "failed" ELSE "reply"]
    /\ UNCHANGED v1_1_vars

\* chat(), lines 216-223: the reply is appended and returned.
v1_0_reply(t) ==
    /\ v1_0.threads[t].pc = "reply"
    /\ LET th == v1_0.threads[t]
           replied == [th.session EXCEPT
                          !.messages = Append(@, Message("assistant", th.response.content))]
       IN  v1_0' = v1_0_ended(t, th.sid, replied, th.prompts, "assistant")
    /\ UNCHANGED v1_1_vars

V1_0_Next ==
    \E t \in Threads :
        \/ \E s \in Sessions, r \in V1_0_Requests, healthy \in BOOLEAN,
              readable \in ReadableFiles, client_created \in BOOLEAN :
                v1_0_chat(t, s, r, healthy, readable, client_created)
        \/ \E response \in V1_0_Responses : v1_0_create(t, response)
        \/ \E raises \in BOOLEAN : v1_0_incr(t, raises)
        \/ v1_0_reply(t)

V1_0_Spec == Init /\ [][V1_0_Next]_vars

\* ------------------------------------------ the metrics file out of reach
\* chat() while the metrics file cannot be read ("load": open() raises in
\* load_json_metrics) or cannot be written ("save": open() raises in
\* save_json_metrics).  In Spec the file is absent or readable, never
\* corrupted, so a call that fails leaves it as it is.
MetricsStoreFaults == {"load", "save"}

\* Number of /chat requests in one behaviour with such a file.
MaxFaultTurns == 2

\* The messages of the requests served with such a file.
FaultRequests == {TextRequest(U_HELLO), TextRequest(U_LAPTOPS)}

\* Variant: what load_json_metrics raises leaves track_metrics_v1_1.
track_metrics_v1_1_raising(fault, f) == [file |-> f, raised |-> fault = "load"]

\* track_metrics_v1_1 with the file out of reach: the except branch
\* (VALIDATION 117-118), or the one of save_json_metrics (58-59), logs.
track_metrics_v1_1_failing(fault, f) == [file |-> f, raised |-> FALSE]

\* track_empty_retrieval_v1_1 with the file out of reach (VALIDATION 146-147).
track_empty_retrieval_v1_1_failing(fault, f) == [file |-> f, raised |-> FALSE]

\* build_conversation_with_context, the retrieval is empty and the file is
\* out of reach when track_empty_retrieval_v1_1 is called.
build_conversation_with_context_store_fault(fault) ==
    /\ pc = "build"
    /\ needs_rag_retrieval(request.message)
    /\ \E res \in RetrieverResults :
          LET conversation == with_user_message(session.messages, request.message)
              relevant_knowledge == get_relevant_knowledge(res.docs)
              tracked == track_empty_retrieval_v1_1_failing(fault, metrics_file)
          IN  /\ res.ok
              /\ ~Truthy(relevant_knowledge)
              /\ retriever_calls' = Append(retriever_calls, request.message)
              /\ retrieved' = [called |-> TRUE, ok |-> res.ok, docs |-> res.docs]
              /\ session' = [session EXCEPT !.messages =
                                 with_context(conversation, relevant_knowledge)]
              /\ metrics_file' = tracked.file
              /\ default_queries' =
                     IF fault = "save"
                     THEN default_queries_after_track_empty_retrieval_v1_1(
                              metrics_file, request.message, clock)
                     ELSE default_queries
              /\ IF tracked.raised
                 THEN pc' = "Exception" /\ UNCHANGED rag_content
                 ELSE pc' = "complete" /\ rag_content' = None
    /\ call' = [op |-> "metrics_store_fault", fault |-> fault, turn |-> clock]
    /\ UNCHANGED <<archive, parked, recording, cost_account, v1_0, ret>>
    /\ UNCHANGED <<store, clock, sid, request, ai_response, outcome, pre, conv0,
                   completion_calls, completed, dialogue>>

\* get_ai_response with the file out of reach when the turn is recorded.
get_ai_response_store_fault(fault) ==
    /\ pc = "complete"
    /\ \E res \in CompletionResults :
          LET tracked == track_metrics_v1_1_failing(fault, metrics_file)
          IN  /\ completion_calls' = Append(completion_calls, session.messages)
              /\ completed' = [called |-> TRUE, ok |-> res.ok]
              /\ metrics_file' = tracked.file
              /\ IF res.ok /\ ~tracked.raised
                 THEN ai_response' = res.text /\ pc' = "add"
                 ELSE \* except Exception: the failure is tracked and raised again
                      pc' = "Exception" /\ UNCHANGED ai_response
    /\ call' = [op |-> "metrics_store_fault", fault |-> fault, turn |-> clock]
    /\ UNCHANGED <<archive, parked, recording, cost_account, v1_0, ret>>
    /\ UNCHANGED <<default_queries, store, rag_content, clock, sid, request, session, outcome,
                   pre, conv0, retriever_calls, retrieved, dialogue>>

\* handle_internal_error with the file out of reach.
handle_internal_error_store_fault(fault) ==
    /\ pc = "Exception"
    /\ metrics_file' = track_metrics_v1_1_failing(fault, metrics_file).file
    /\ outcome' = ServiceUnavailable
    /\ pc' = "respond"
    /\ call' = [op |-> "metrics_store_fault", fault |-> fault, turn |-> clock]
    /\ UNCHANGED <<archive, parked, recording, cost_account, v1_0, ret>>
    /\ UNCHANGED <<default_queries, store, rag_content, clock, sid, request, session, ai_response,
                   pre, conv0, retriever_calls, completion_calls, retrieved, completed, dialogue>>

StoreFaultNext ==
    \/ \E r \in FaultRequests :
          clock < MaxFaultTurns /\ chat_validate("s1", r)
    \/ chat_init
    \/ build_conversation_with_context
    \/ get_ai_response
    \/ chat_reply
    \/ handle_internal_error
    \/ save_session
    \/ \E fault \in MetricsStoreFaults :
          \/ build_conversation_with_context_store_fault(fault)
          \/ get_ai_response_store_fault(fault)
          \/ handle_internal_error_store_fault(fault)

StoreFaultSpec == Init /\ [][StoreFaultNext]_vars

\* ------------------------------------------------ messages at the limit
\* chat() with utterances of MAX_MESSAGE_LENGTH characters and one more.
\* Number of /chat requests with such utterances in one behaviour.
MaxLongTurns == 2

LongRequests == {TextRequest(U_LONGEST), TextRequest(U_TOO_LONG), TextRequest(U_HELLO)}

LengthNext ==
    \/ \E s \in Sessions, r \in LongRequests :
          clock < MaxLongTurns /\ chat_validate(s, r)
    \/ chat_init
    \/ build_conversation_with_context
    \/ get_ai_response
    \/ chat_reply
    \/ handle_internal_error
    \/ save_session

LengthSpec == Init /\ [][LengthNext]_vars

\* --------------------------------------- the prompt files after startup
\* Spec takes the two prompt files to be as they were at startup.  chat()
\* reads them again on the first turn of every session (app.py 187-190), and
\* prompt_system_v1_1 calls sys.exit(1) when it cannot load them.

\* The files prompts/sys_prompt.txt and prompts/behaviour_guidelines.txt:
\* None is a file that is missing or cannot be read.
PromptFiles ==
    { [sys_prompt |-> Some(SYS_PROMPT), behaviour_guidelines |-> Some(BEHAVIOUR_GUIDELINES)],
      [sys_prompt |-> None, behaviour_guidelines |-> Some(BEHAVIOUR_GUIDELINES)],
      [sys_prompt |-> Some(SYS_PROMPT), behaviour_guidelines |-> Some(<<>>)],
      [sys_prompt |-> Some(SYS_PROMPT), behaviour_guidelines |-> Some(<<" ", "\n">>)] }

\* prompt_system_v1_1 reaches one of its sys.exit(1) calls.
prompt_system_v1_1_exits(files) ==
    \E f \in DOMAIN files : files[f].is_none \/ strip(files[f].text) = <<>>

\* SystemExit leaves chat(): it is no Exception, so no error handler of the
\* application runs and no response is made.  What ends is the thread of
\* the request or the worker process, as the server in front decides.
Exits == {"thread-ended", "process-exited"}
Exited(how) == [kind |-> how, status |-> 0, text |-> <<>>]

\* app.py 189, prompt_system_v1_1 exiting: the session is not saved.
chat_init_exit(files, how) ==
    /\ pc = "init"
    /\ ~session.has_messages
    /\ prompt_system_v1_1_exits(files)
    /\ outcome' = Exited(how)
    /\ pc' = "idle"
    /\ UNCHANGED elsewhere
    /\ UNCHANGED <<default_queries, store, metrics_file, rag_content, clock, sid, request,
                   session, ai_response, pre, conv0, retriever_calls, completion_calls,
                   retrieved, completed, dialogue>>

PromptFilesNext ==
    \/ Next
    \/ \E files \in PromptFiles, how \in Exits : chat_init_exit(files, how)

PromptFilesSpec == Init /\ [][PromptFilesNext]_vars

\* ------------------------------------------------- two requests in flight
\* The server handles requests in threads (app.run, app.py 241-244) and chat()
\* takes no lock: a second request can be received while the first is between
\* two steps of chat().  pc .. completed are the request whose handler runs,
\* parked is the other one.

\* Number of /chat requests received in one behaviour with two in flight.
MaxConcurrentTurns == 2

\* The request whose handler runs.
Running ==
    [ pc |-> pc, sid |-> sid, request |-> request, session |-> session,
      ai_response |-> ai_response, outcome |-> outcome, pre |-> pre,
      conv0 |-> conv0, retriever_calls |-> retriever_calls,
      completion_calls |-> completion_calls,
      retrieved |-> retrieved, completed |-> completed ]

\* The messages of the requests received while another is in flight.
ConcurrentRequests == {TextRequest(U_HELLO), TextRequest(U_LAPTOPS)}

\* The thread of the other request is scheduled.
switch ==
    /\ pc # "idle" \/ parked.pc # "idle"
    /\ parked' = Running
    /\ pc' = parked.pc
    /\ sid' = parked.sid
    /\ request' = parked.request
    /\ session' = parked.session
    /\ ai_response' = parked.ai_response
    /\ outcome' = parked.outcome
    /\ pre' = parked.pre
    /\ conv0' = parked.conv0
    /\ retriever_calls' = parked.retriever_calls
    /\ completion_calls' = parked.completion_calls
    /\ retrieved' = parked.retrieved
    /\ completed' = parked.completed
    /\ UNCHANGED <<default_queries, store, metrics_file, rag_content, clock,
                   dialogue, archive, recording, cost_account, v1_0, call, ret>>

ConcurrentNext ==
    \/ \E s \in Sessions, r \in ConcurrentRequests :
          clock < MaxConcurrentTurns /\ chat_validate(s, r)
    \/ chat_init
    \/ build_conversation_with_context
    \/ get_ai_response
    \/ chat_reply
    \/ handle_internal_error
    \/ save_session
    \/ switch

ConcurrentSpec == Init /\ [][ConcurrentNext]_vars

\* ==================================================================== claims

\* The request in flight has been answered and its session written back.
TurnDone == pc = "idle" /\ clock > 0

\* What the metrics file records: nothing yet when it does not exist.
Recorded(f) == IF f.state = "ok" THEN f.data ELSE ZeroRecord

UserMessage == Message("user", request.message)

\* a is a subsequence of b
RECURSIVE IsSubseq(_, _)
IsSubseq(a, b) ==
    IF a = <<>> THEN TRUE
    ELSE IF b = <<>> THEN FALSE
    ELSE IF Head(a) = Head(b) THEN IsSubseq(Tail(a), Tail(b))
    ELSE IsSubseq(a, Tail(b))

\* The retriever returned passages to the request in flight, and the text
\* joined from them.
KnowledgeRetrieved == retrieved.called /\ retrieved.ok /\ retrieved.docs # <<>>
RetrievedText == join(<<"\n", "\n">>, retrieved.docs)
EmptyRetrieval == retrieved.called /\ retrieved.ok /\ retrieved.docs = <<>>
CollaboratorFailed ==
    \/ retrieved.called /\ ~retrieved.ok
    \/ completed.called /\ ~completed.ok

\* The utterance has no question mark and no listed word.
GateRejects(u) ==
    /\ \A i \in 1..Len(u) : u[i] # "?"
    /\ \A list \in {german_indicators, english_indicators, product_indicators} :
         \A k \in 1..Len(list) : ~Contains(lower(u), list[k])

\* C1: Conversation memory. The message sequence passed to the completion call
\* of a turn contains, in their original order, the user message and the reply
\* of every earlier successful turn of the session, followed by the user
\* message of this turn.
C1_ConversationMemory ==
    (pc \in {"add", "Exception"}) =>
        \A i \in 1..Len(completion_calls) :
            IsSubseq(dialogue[sid] \o <<UserMessage>>, completion_calls[i])

\* Reached: the completion call of a session's third turn, after two successful
\* turns with different utterances.
C1_Witness ==
    /\ pc = "add"
    /\ Len(completion_calls) = 1
    /\ Len(dialogue[sid]) = 4
    /\ dialogue[sid][1] # dialogue[sid][3]

\* C2: For a session with no stored Conversation, initialization yields exactly
\* two system messages, the system prompt first and the behaviour guidelines
\* second, whatever happened before.
C2_InitTwoSystemMessages ==
    (pc = "build" /\ ~pre.session.has_messages) =>
        session.messages = << [role |-> "system", content |-> SYS_PROMPT],
                              [role |-> "system", content |-> BEHAVIOUR_GUIDELINES] >>

\* Reached: a session is initialized after another session has saved a
\* Conversation and metrics have been recorded.
C2_Witness ==
    /\ pc = "build"
    /\ ~pre.session.has_messages
    /\ \E t \in Sessions : store[t].has_messages
    /\ Recorded(metrics_file).total_requests_v1_1 > 0

\* The messages the turn of the request in flight has added to conversation m.
AddedBy(m) == SubSeq(m, Len(conv0) + 1, Len(m))

\* C3, as claimed: after a turn completes (its reply is returned and the
\* session saved), the Conversation saved for the session does not contain the
\* retrieved-knowledge system message built for that turn.
C3_RetrievalNotSaved ==
    (TurnDone /\ outcome.kind = "assistant" /\ KnowledgeRetrieved) =>
        \A i \in 1..Len(AddedBy(store[sid].messages)) :
            AddedBy(store[sid].messages)[i].role # "system"

\* C3, amended: after a successful turn for which the retriever returned
\* passages, the Conversation saved for the session contains the
\* retrieved-knowledge system message built for that turn, right after the
\* turn's user message.
C3_RetrievalSaved ==
    (TurnDone /\ outcome.kind = "assistant" /\ KnowledgeRetrieved) =>
        LET added == AddedBy(store[sid].messages)
        IN  /\ Len(added) >= 2
            /\ added[1] = UserMessage
            /\ added[2] = [role |-> "system", content |-> RetrievedText]

\* Reached: a successful turn with one retrieved passage, in a session that
\* had a saved Conversation.
C3_Witness ==
    /\ TurnDone
    /\ outcome.kind = "assistant"
    /\ KnowledgeRetrieved
    /\ Len(retrieved.docs) = 1
    /\ pre.session.has_messages

\* C4: a successful turn whose utterance has no question mark and no listed
\* word never calls the retriever, and the Conversation gains exactly the user
\* message and then the assistant message.
C4_GateNegativeTurn ==
    (TurnDone /\ outcome.kind = "assistant" /\ GateRejects(request.message)) =>
        /\ retriever_calls = <<>>
        /\ ~retrieved.called
        /\ store[sid].messages =
              conv0 \o << UserMessage, [role |-> "assistant", content |-> outcome.text] >>

\* Reached: "Hello, my name is Sarah" answered in a session that had a saved
\* Conversation.
C4_Witness ==
    /\ TurnDone
    /\ outcome.kind = "assistant"
    /\ request.message = U_HELLO
    /\ GateRejects(U_HELLO)
    /\ pre.session.has_messages

\* C5: a successful turn whose utterance passes the gate and for which the
\* retriever returns one or more passages adds exactly three messages: the
\* user message, one system message holding the retrieved text, the assistant
\* message; the empty-retrieval count and log are unchanged by the turn.
C5_RetrievalTurn ==
    (TurnDone /\ outcome.kind = "assistant" /\ KnowledgeRetrieved) =>
        /\ ~GateRejects(request.message)
        /\ store[sid].messages =
              conv0 \o << UserMessage,
                          [role |-> "system", content |-> RetrievedText],
                          [role |-> "assistant", content |-> outcome.text] >>
        /\ Recorded(metrics_file).empty_retrieval_count_v1_1 =
              Recorded(pre.metrics_file).empty_retrieval_count_v1_1
        /\ Recorded(metrics_file).empty_retrieval_queries_v1_1 =
              Recorded(pre.metrics_file).empty_retrieval_queries_v1_1

\* Reached: "Do you have laptops?" answered with two retrieved passages, after
\* an empty retrieval had been recorded.
C5_Witness ==
    /\ TurnDone
    /\ outcome.kind = "assistant"
    /\ request.message = U_LAPTOPS
    /\ retrieved.docs = <<PASSAGE_1, PASSAGE_2>>
    /\ Recorded(pre.metrics_file).empty_retrieval_count_v1_1 > 0

\* C6: when the utterance passes the gate and the retriever returns no passage,
\* the empty-retrieval count is one more than before the turn, the newest log
\* entry holds the utterance, the turn adds no system message, and the turn
\* goes on to the completion call.
C6_EmptyRetrievalTurn ==
    EmptyRetrieval =>
        LET log == Recorded(metrics_file).empty_retrieval_queries_v1_1
        IN  /\ Recorded(metrics_file).empty_retrieval_count_v1_1 =
                  Recorded(pre.metrics_file).empty_retrieval_count_v1_1 + 1
            /\ log # <<>>
            /\ log[Len(log)].query = request.message
            /\ \A i \in 1..Len(AddedBy(session.messages)) :
                  AddedBy(session.messages)[i].role # "system"
            /\ pc = "complete" \/ completed.called

\* Reached: a turn with an empty retrieval is answered, after an earlier empty
\* retrieval.
C6_Witness ==
    /\ TurnDone
    /\ EmptyRetrieval
    /\ outcome.kind = "assistant"
    /\ Recorded(pre.metrics_file).empty_retrieval_count_v1_1 > 0

\* The accumulators a failed turn must leave alone.
Accumulators(f) ==
    << Recorded(f).total_conversation_tokens_v1_1,
       Recorded(f).total_response_time_v1_1,
       Recorded(f).total_context_tokens_v1_1,
       Recorded(f).total_cost_v1_1,
       Recorded(f).successful_requests_v1_1 >>

\* C7: an utterance of more than 1000 characters is rejected as input-too-long
\* before any retriever or completion call; the metrics file and the session's
\* stored Conversation (and whether there is one) are as before the request.
C7_TooLongRejected ==
    (clock > 0 /\ request.kind = "text" /\ Len(request.message) > 1000) =>
        /\ pc \in {"respond", "idle"}
        /\ outcome = InputTooLong
        /\ retriever_calls = <<>>
        /\ completion_calls = <<>>
        /\ metrics_file = pre.metrics_file
        /\ store[sid] = pre.session

\* Reached: a 1001-character utterance has been rejected in a session that had
\* a saved Conversation, with metrics recorded before.
C7_Witness ==
    /\ TurnDone
    /\ request.kind = "text"
    /\ Len(request.message) = 1001
    /\ pre.session.has_messages
    /\ pre.metrics_file.state = "ok"

\* C8, as claimed: a request whose utterance is missing or is not text is
\* rejected as malformed-input before any retriever or completion call, is
\* never reported as service-unavailable and is never recorded as a failed
\* turn in metrics.
C8_MalformedInput ==
    (TurnDone /\ request.kind \in {"missing", "number"}) =>
        /\ outcome = MalformedInput
        /\ retriever_calls = <<>>
        /\ completion_calls = <<>>
        /\ Recorded(metrics_file).total_requests_v1_1 =
              Recorded(pre.metrics_file).total_requests_v1_1

C10_FailedTurnCountedOnce ==
    (TurnDone /\ CollaboratorFailed) =>
        Recorded(metrics_file).total_requests_v1_1 =
            Recorded(pre.metrics_file).total_requests_v1_1 + 1

\* What the metrics file f stores under key: a field that is missing counts as
\* zero, and so does every field of a file that is missing or unreadable.
Stored(f, key) == IF f.state = "ok" /\ key \in DOMAIN f.data THEN f.data[key] ELSE 0

\* The metrics file f holds the zero record, or there is no file yet.
ZeroStored(f) ==
    \/ f.state = "absent"
    \/ f.state = "ok" /\ DOMAIN f.data = DOMAIN ZeroRecord
                      /\ [f.data EXCEPT !.last_updated = 0] = ZeroRecord

\* C11: recording one successful turn with T tokens raises the total request
\* count by 1, the successful count by 1 and the total tokens by T; the summary
\* that follows shows the raised request count; and on a zero record, after that
\* one successful turn, the summary's average tokens per conversation is T
\* (T.0: the summary is in tenths of a token).
C11_SuccessfulTurnRecorded ==
    /\ (call.op = "track_metrics_v1_1" /\ call.success) =>
          /\ Stored(metrics_file, "total_requests_v1_1") =
                 Stored(call.file, "total_requests_v1_1") + 1
          /\ Stored(metrics_file, "successful_requests_v1_1") =
                 Stored(call.file, "successful_requests_v1_1") + 1
          /\ Stored(metrics_file, "total_conversation_tokens_v1_1") =
                 Stored(call.file, "total_conversation_tokens_v1_1") + call.conversation_tokens
    /\ (/\ call.op = "get_metrics_summary_v1_1"
        /\ call.after.op = "track_metrics_v1_1"
        /\ call.after.success) =>
          /\ ret.total_requests_v1_1 =
                 Stored(call.after.file, "total_requests_v1_1") + 1
          /\ ZeroStored(call.after.file) =>
                 /\ ret.total_requests_v1_1 = 1
                 /\ ret.average_tokens_per_conversation_v1_1 =
                        10 * call.after.conversation_tokens

C11_Witness ==
    /\ call.op = "get_metrics_summary_v1_1"
    /\ call.after.op = "track_metrics_v1_1"
    /\ call.after.success
    /\ call.after.conversation_tokens = 250
    /\ ZeroStored(call.after.file)
    /\ ret.average_tokens_per_conversation_v1_1 = 2500
    /\ Stored(metrics_file, "total_conversation_tokens_v1_1") = 250

\* The empty-retrieval log the metrics file holds.
StoredLog(f) ==
    IF f.state = "ok" /\ "empty_retrieval_queries_v1_1" \in DOMAIN f.data
    THEN f.data.empty_retrieval_queries_v1_1
    ELSE <<>>

\* C12: after n track_empty_retrieval_v1_1 calls that started from an empty
\* log, the log holds exactly the min(n, 1000) most recent utterances, in call
\* order (the i-th entry kept is the entry of call n - min(n, 1000) + i).
C12_LogKeepsMostRecent ==
    LET n == clock
        k == IF n < 1000 THEN n ELSE 1000
        log == StoredLog(metrics_file)
    IN  /\ Len(log) = k
        /\ \A i \in 1..k :
              log[i] = [query |-> QueryOf(n - k + i), timestamp |-> n - k + i]
        /\ Stored(metrics_file, "empty_retrieval_count_v1_1") = n

\* 1001 calls were made: the entry of the first call is gone, the entries of
\* the calls 2..1001 are there.
C12_Witness ==
    /\ clock = 1001
    /\ call.op = "track_empty_retrieval_v1_1"
    /\ Len(StoredLog(metrics_file)) = 1000
    /\ StoredLog(metrics_file)[1] = [query |-> QueryOf(2), timestamp |-> 2]
    /\ StoredLog(metrics_file)[1000] = [query |-> QueryOf(1001), timestamp |-> 1001]

\* C13: when the stored metrics record is unreadable, loading moves it to a
\* backup and returns a fresh default record, every counter zero and the
\* empty-retrieval log empty, whatever calls the process made before.
C13_CorruptedRecordRecovered ==
    (call.op = "load_json_metrics" /\ call.file.state = "corrupted") =>
        /\ archive # <<>>
        /\ archive[Len(archive)] = call.file
        /\ DOMAIN ret = DOMAIN ZeroRecord
        /\ [ret EXCEPT !.last_updated = 0] = ZeroRecord

\* C14: loading a stored record that lacks some fields returns a record in
\* which each missing field has its default value (zero, the empty log) and
\* each present field its stored value, and writes that record back
\* (last_updated is the time of the write).
C14_MissingFieldsMigrated ==
    (/\ call.op = "load_json_metrics"
     /\ call.file.state = "ok"
     /\ DOMAIN call.file.data # DOMAIN ZeroRecord) =>
        /\ DOMAIN ret = (DOMAIN call.file.data) \cup (DOMAIN ZeroRecord)
        /\ \A key \in (DOMAIN ret) \ {"last_updated"} :
              ret[key] = IF key \in DOMAIN call.file.data
                         THEN call.file.data[key]
                         ELSE ZeroRecord[key]
        /\ metrics_file = [state |-> "ok", data |-> ret]

\* The five derived values of a summary.
Derived ==
    { "average_response_time_v1_1", "success_rate_v1_1",
      "average_tokens_per_conversation_v1_1", "average_context_size_v1_1",
      "average_cost_per_conversation_v1_1" }

\* C15 as stated: the summary reports the success rate and every average as
\* zero when there are no successful turns; otherwise each average is exactly
\* the accumulator divided by the successful count and the success rate exactly
\* successful divided by total (each in the unit of the summary).
C15_SummaryExactQuotients ==
    call.op = "get_metrics_summary_v1_1" =>
        LET successful == Stored(call.file, "successful_requests_v1_1")
            total == Stored(call.file, "total_requests_v1_1")
        IN  IF successful = 0
            THEN \A key \in Derived : ret[key] = 0
            ELSE /\ ret.average_response_time_v1_1 * successful =
                        100 * Stored(call.file, "total_response_time_v1_1")
                 /\ ret.average_tokens_per_conversation_v1_1 * successful =
                        10 * Stored(call.file, "total_conversation_tokens_v1_1")
                 /\ ret.average_context_size_v1_1 * successful =
                        10 * Stored(call.file, "total_context_tokens_v1_1")
                 /\ ret.average_cost_per_conversation_v1_1 * 1000 * successful =
                        Stored(call.file, "total_cost_v1_1")
                 /\ ret.success_rate_v1_1 * total = 1000 * successful

\* v is num / den rounded to a nearest integer.
Nearest(v, num, den) ==
    /\ 2 * (v * den - num) <= den
    /\ 2 * (num - v * den) <= den

\* C15, amended: zero as stated; otherwise each average is the accumulator
\* divided by the successful count, rounded to the precision of the summary
\* (1/100 s, 1/10 token, 1/1000000 dollar), and the success rate is
\* successful divided by total as a percentage rounded to 1/10.
C15_SummaryRoundedQuotients ==
    call.op = "get_metrics_summary_v1_1" =>
        LET successful == Stored(call.file, "successful_requests_v1_1")
            total == Stored(call.file, "total_requests_v1_1")
        IN  IF successful = 0
            THEN \A key \in Derived : ret[key] = 0
            ELSE /\ Nearest(ret.average_response_time_v1_1,
                            100 * Stored(call.file, "total_response_time_v1_1"), successful)
                 /\ Nearest(ret.average_tokens_per_conversation_v1_1,
                            10 * Stored(call.file, "total_conversation_tokens_v1_1"), successful)
                 /\ Nearest(ret.average_context_size_v1_1,
                            10 * Stored(call.file, "total_context_tokens_v1_1"), successful)
                 /\ Nearest(ret.average_cost_per_conversation_v1_1,
                            Stored(call.file, "total_cost_v1_1"), 1000 * successful)
                 /\ Nearest(ret.success_rate_v1_1, 1000 * successful, total)

\* A summary of two successful turns among three: 66.7 percent.
C15_Witness ==
    /\ call.op = "get_metrics_summary_v1_1"
    /\ Stored(call.file, "successful_requests_v1_1") = 2
    /\ Stored(call.file, "total_requests_v1_1") = 3
    /\ Stored(call.file, "total_conversation_tokens_v1_1") = 200
    /\ ret.success_rate_v1_1 = 667
    /\ ret.average_tokens_per_conversation_v1_1 = 1000

\* text with every upper-case letter replaced by its lower-case letter
LowerCased(text) ==
    [i \in 1..Len(text) |->
        IF \E n \in 1..Len(UPPER) : UPPER[n] = text[i]
        THEN LOWER[CHOOSE n \in 1..Len(UPPER) : UPPER[n] = text[i]]
        ELSE text[i]]

\* word occupies the positions from..(from + Len(word) - 1) of text
OccursAt(text, word, from) ==
    /\ from >= 1
    /\ from + Len(word) - 1 <= Len(text)
    /\ \A j \in 1..Len(word) : text[from + j - 1] = word[j]

\* C16: needs_rag_retrieval returns true exactly when the utterance contains
\* "?" or its lower-cased text contains one of the listed German, English or
\* product words as a substring.
C16_GateCondition ==
    call.op = "needs_rag_retrieval" =>
        LET u == call.user_query
        IN  ret = ( \/ \E i \in 1..Len(u) : u[i] = "?"
                    \/ \E list \in {german_indicators, english_indicators,
                                     product_indicators} :
                         \E k \in 1..Len(list) : \E from \in 1..Len(u) :
                            OccursAt(LowerCased(u), list[k], from) )

\* "Wow" has no question mark and is no question, and the gate lets it pass:
\* its lower-cased text contains "wo".
C16_Witness ==
    /\ call.op = "needs_rag_retrieval"
    /\ call.user_query = U_WOW
    /\ ret = TRUE

\* C17: the Conversation a turn leaves in the session is what the store holds
\* for the session when the turn has ended, and the next turn of the session
\* starts from that same sequence of messages, without initializing again.
C17_RoundTrip ==
    /\ (TurnDone /\ session.has_messages) =>
          /\ store[sid].has_messages
          /\ store[sid].messages = session.messages
    /\ (pc = "build" /\ store[sid].has_messages) =>
          /\ conv0 = store[sid].messages
          /\ session.messages = store[sid].messages

\* The second turn of a session starts from the four messages the first left.
C17_Witness ==
    /\ pc = "build"
    /\ store[sid].has_messages
    /\ Len(store[sid].messages) = 4
    /\ store[sid].messages[4] = Message("assistant", REPLY_1)
    /\ conv0 = store[sid].messages

\* C18: build_conversation_with_context leaves the messages it finds as they
\* are and puts after them exactly one user message and at most one system
\* message with retrieved knowledge; and the Conversation stored for a session
\* only ever grows at its end.
C18_AssembleAppends ==
    [][ /\ (pc = "build" /\ pc' # "build") =>
            LET before == session.messages
                after == session'.messages
                n == Len(before)
            IN  /\ Len(after) \in {n + 1, n + 2}
                /\ SubSeq(after, 1, n) = before
                /\ after[n + 1] = Message("user", request.message)
                /\ Len(after) = n + 2 => after[n + 2].role = "system"
        /\ \A s \in Sessions :
              /\ Len(store'[s].messages) >= Len(store[s].messages)
              /\ SubSeq(store'[s].messages, 1, Len(store[s].messages)) = store[s].messages
      ]_vars

\* A later turn of a session has got its user message and a system message
\* with retrieved knowledge, after the messages of the turn before.
C18_Witness ==
    /\ pc = "complete"
    /\ pre.session.has_messages
    /\ Len(session.messages) = Len(pre.session.messages) + 2
    /\ SubSeq(session.messages, 1, Len(pre.session.messages)) = pre.session.messages
    /\ session.messages[Len(session.messages)].role = "system"

\* Where the i-th of the passages starts in their text, less one.
RECURSIVE Offset(_, _)
Offset(docs, i) == IF i = 1 THEN 0 ELSE Offset(docs, i - 1) + Len(docs[i - 1]) + 2

\* text is the passages in order with a blank line ("\n\n") between one and
\* the next.
BlankLineJoined(text, docs) ==
    LET k == Len(docs)
    IN  /\ Len(text) = Offset(docs, k) + Len(docs[k])
        /\ \A i \in 1..k : \A j \in 1..Len(docs[i]) : text[Offset(docs, i) + j] = docs[i][j]
        /\ \A i \in 2..k : /\ text[Offset(docs, i) - 1] = "\n"
                            /\ text[Offset(docs, i)] = "\n"

\* C19: when the retriever returned k >= 1 passages, build_conversation_with_context
\* has appended, after the user message, one system message whose content is
\* the passages' texts in order joined by a blank line, and rag_content is that
\* same content.
C19_RetrievedContext ==
    (pc = "complete" /\ KnowledgeRetrieved) =>
        LET n == Len(session.messages)
        IN  /\ n = Len(conv0) + 2
            /\ session.messages[n - 1] = UserMessage
            /\ session.messages[n].role = "system"
            /\ BlankLineJoined(session.messages[n].content, retrieved.docs)
            /\ rag_content = Some(session.messages[n].content)

\* Two passages, "KB1" and "KB2", were returned.
C19_Witness ==
    /\ pc = "complete"
    /\ retrieved.docs = <<PASSAGE_1, PASSAGE_2>>
    /\ session.messages[Len(session.messages)] =
           Message("system", <<"K", "B", "1", "\n", "\n", "K", "B", "2">>)
    /\ rag_content = Some(<<"K", "B", "1", "\n", "\n", "K", "B", "2">>)

\* The user message and the reply of the request r, as messages.
TurnMessages(r) ==
    << Message("user", r.request.message), Message("assistant", r.ai_response) >>

\* C20: when two turns of the same session have both completed, the
\* Conversation saved for the session contains the messages of both turns, those
\* of the turn that arrived first before those of the other.
C20_SessionTurnsInOrder ==
    (/\ pc = "idle"
     /\ parked.pc = "idle"
     /\ outcome.kind = "assistant"
     /\ parked.outcome.kind = "assistant"
     /\ sid = parked.sid) =>
        LET earlier == IF pre.turn < parked.pre.turn THEN Running ELSE parked
            later == IF pre.turn < parked.pre.turn THEN parked ELSE Running
        IN  IsSubseq(TurnMessages(earlier) \o TurnMessages(later), store[sid].messages)

\* No track_metrics_v1_1 call is between its load and its save.
NoneRecording == \A t \in Threads : recording.calls[t].state = "idle"

\* C21: track_metrics_v1_1 calls whose load and save steps interleave can lose
\* an update, and never add one: the total-request counter is at most the
\* number of completed calls, and at least 1 once a call has completed; when no
\* call was made while another was between its load and its save, the counter
\* is exactly the number of completed calls.
C21_LostUpdate ==
    NoneRecording =>
        /\ Stored(metrics_file, "total_requests_v1_1") <= recording.completed
        /\ recording.completed > 0 => Stored(metrics_file, "total_requests_v1_1") >= 1
        /\ ~recording.overlapped =>
              Stored(metrics_file, "total_requests_v1_1") = recording.completed

\* Two calls have completed and the total-request counter is 1.
C21_Witness ==
    /\ NoneRecording
    /\ recording.completed = 2
    /\ recording.overlapped
    /\ Stored(metrics_file, "total_requests_v1_1") = 1

\* C22: in every turn the completion call is made at most once and the
\* retriever is called at most once, also when the call fails.
C22_NoRetry ==
    /\ Len(completion_calls) <= 1
    /\ Len(retriever_calls) <= 1
    /\ completed.called <=> Len(completion_calls) = 1
    /\ retrieved.called <=> Len(retriever_calls) = 1

\* A turn has ended whose retriever call returned and whose completion call
\* failed: each was called once.
C22_Witness ==
    /\ TurnDone
    /\ outcome = ServiceUnavailable
    /\ retrieved.called /\ retrieved.ok
    /\ completed.called /\ ~completed.ok
    /\ Len(retriever_calls) = 1
    /\ Len(completion_calls) = 1

\* The turns recorded as successful.
Successful(turns) == SelectSeq(turns, LAMBDA t : t.success)

\* The tokens of the turns, added.
RECURSIVE TokensOf(_)
TokensOf(turns) ==
    IF turns = <<>> THEN 0
    ELSE TokensOf(SubSeq(turns, 1, Len(turns) - 1)) + turns[Len(turns)].conversation_tokens

\* The float costs of the turns, added in order from zero.
RECURSIVE CostOf(_)
CostOf(turns) ==
    IF turns = <<>> THEN FloatZero
    ELSE FloatSum(CostOf(SubSeq(turns, 1, Len(turns) - 1)),
                  estimated_cost(turns[Len(turns)].conversation_tokens))

\* The float x, n floats further up.
RECURSIVE FloatsAbove(_, _)
FloatsAbove(x, n) == IF n = 0 THEN x ELSE FloatsAbove(FloatAbove(x), n - 1)

\* x and y are at most n floats apart.
WithinUlps(x, y, n) ==
    \E i \in 0..n : FloatsAbove(x, i) = y \/ FloatsAbove(y, i) = x

\* C24 as stated: after any sequence of track_metrics_v1_1 calls from a zero
\* record, the total cost equals the total tokens times the rate,
\* (total tokens / 1_000_000) * 0.375.
C24_CostIsTokensTimesRate ==
    cost_account.total_cost_v1_1 =
        estimated_cost(cost_account.total_conversation_tokens_v1_1)

\* C24, amended: the total cost is the float sum, in call order, of the costs
\* (tokens / 1_000_000) * 0.375 of the successful turns, a failed turn adds
\* nothing; it is the total tokens times the rate when at most one turn was
\* successful, and otherwise within one float per successful turn of it.
C24_CostIsSumOfTurnCosts ==
    LET paid == Successful(cost_account.turns)
    IN  /\ cost_account.total_conversation_tokens_v1_1 = TokensOf(paid)
        /\ cost_account.total_cost_v1_1 = CostOf(paid)
        /\ Len(paid) <= 1 =>
              cost_account.total_cost_v1_1 =
                  estimated_cost(cost_account.total_conversation_tokens_v1_1)
        /\ Len(paid) >= 1 =>
              WithinUlps(cost_account.total_cost_v1_1,
                         estimated_cost(cost_account.total_conversation_tokens_v1_1),
                         Len(paid))

\* 100 tokens, a failed turn, 250 tokens: the total cost is
\* 0.00013125000000000002, and 350 tokens times the rate is 0.00013125.
C24_Witness ==
    /\ cost_account.turns =
           << [conversation_tokens |-> 100, success |-> TRUE],
              [conversation_tokens |-> 0, success |-> FALSE],
              [conversation_tokens |-> 250, success |-> TRUE] >>
    /\ cost_account.total_conversation_tokens_v1_1 = 350
    /\ cost_account.total_cost_v1_1 = [m |-> <<1046, 337, 937, 514, 275>>, e |-> -65]
    /\ cost_account.total_cost_v1_1 # estimated_cost(350)

\* Every track_metrics call that began has returned.
AllTracked == \A t \in Threads : ~Tracking(t)

\* C27: the v1.0 recorder increments the counters of the store atomically,
\* so no update is lost under any interleaving: when N track_metrics calls of
\* concurrent turns have all completed (the store having answered each), the
\* successful-request counter plus the failed-request counter equals N.
C27_NoLostIncrement ==
    AllTracked =>
        /\ v1_0.counters.total_succ_requests_v1_0 + v1_0.counters.failed_requests_v1_0
               = v1_0.track_calls - v1_0.store_errors
        /\ v1_0.store_errors = 0 =>
               v1_0.counters.total_succ_requests_v1_0 + v1_0.counters.failed_requests_v1_0
                   = v1_0.track_calls

\* Two turns were inside track_metrics at the same time, both calls returned,
\* one counted a success and the other a failure.
C27_Witness ==
    /\ AllTracked
    /\ v1_0.overlapped
    /\ v1_0.store_errors = 0
    /\ v1_0.track_calls = 2
    /\ v1_0.counters.total_succ_requests_v1_0 = 1
    /\ v1_0.counters.failed_requests_v1_0 = 1

\* The three messages a v1.0 Conversation starts with.
Seed ==
    << Message("system", SYS_PROMPT),
       Message("system", BEHAVIOUR_GUIDELINES),
       Message("assistant", KNOWLEDGE_BASE) >>

\* The session holds a Conversation that starts with the seed and holds no
\* other prompt text.
SeededOnce(sess) ==
    /\ sess.has_messages
    /\ Len(sess.messages) >= 3
    /\ SubSeq(sess.messages, 1, 3) = Seed
    /\ \A i \in 4..Len(sess.messages) :
          /\ sess.messages[i].role \in {"user", "assistant"}
          /\ sess.messages[i].content \notin {SYS_PROMPT, BEHAVIOUR_GUIDELINES, KNOWLEDGE_BASE}

\* C28: in the v1.0 chat handler a Conversation is seeded with exactly the
\* system prompt, the behaviour guidelines and the knowledge base, in that
\* order, and only when all three loaded; a first turn whose prompt loading
\* failed stores no Conversation, makes no completion call and records no
\* metric.
C28_SeededOrNothing ==
    /\ \A s \in Sessions : v1_0.store[s].has_messages => SeededOnce(v1_0.store[s])
    /\ \A t \in Threads :
          /\ v1_0.threads[t].pc # "idle" => SeededOnce(v1_0.threads[t].session)
          /\ v1_0.threads[t].prompts = "failed" =>
                /\ v1_0.threads[t].pc = "idle"
                /\ v1_0.threads[t].outcome = "unreliable"
                /\ ~v1_0.threads[t].saved
                /\ ~v1_0.threads[t].created
                /\ v1_0.threads[t].tracked = 0

\* One first turn failed to load the prompts and another loaded them: no
\* counter moved for the first, and the Conversation of the second is stored.
C28_Witness ==
    /\ v1_0.threads["t1"].prompts = "failed"
    /\ v1_0.threads["t1"].tracked = 0
    /\ v1_0.threads["t2"].prompts = "loaded"
    /\ v1_0.threads["t2"].pc = "idle"
    /\ v1_0.threads["t2"].outcome = "assistant"
    /\ v1_0.track_calls = 1
    /\ ~v1_0.store["s1"].has_messages
    /\ Len(v1_0.store["s2"].messages) = 5

\* C25: a failure to load the static instruction texts is observed only at
\* startup: no chat turn ends, and no process terminates during a turn,
\* because the prompt files could not be loaded.
C25_PromptFailureOnlyAtStartup ==
    TurnDone => outcome.kind \notin Exits

\* C23: every turn ends in exactly one outcome, the assistant text or one of
\* the error kinds input-too-long, malformed-input, service-unavailable, and
\* an error carries a fixed text.
C23_OneOutcomePerTurn ==
    TurnDone =>
        \/ outcome.kind = "assistant" /\ outcome.text = ai_response /\ completed.ok
        \/ outcome \in {InputTooLong, MalformedInput, ServiceUnavailable}

\* C26: the length check rejects a turn exactly when the utterance has more
\* than 1000 characters; an utterance of exactly 1000 characters is accepted
\* and goes on to the retrieval gate and the completion call.
C26_RejectedOnlyAboveLimit ==
    (TurnDone /\ request.kind = "text") =>
        /\ outcome = InputTooLong <=> Len(request.message) > 1000
        /\ Len(request.message) > 1000 =>
              retriever_calls = <<>> /\ completion_calls = <<>> /\ session = pre.session
        /\ Len(request.message) = 1000 =>
              /\ Len(retriever_calls) = 1
              /\ retriever_calls[1] = request.message
              /\ retrieved.ok => Len(completion_calls) = 1

\* A turn of exactly 1000 characters was answered.
C26_Witness ==
    /\ TurnDone
    /\ Len(request.message) = 1000
    /\ needs_rag_retrieval(request.message)
    /\ Len(retriever_calls) = 1
    /\ Len(completion_calls) = 1
    /\ outcome.kind = "assistant"

\* The context retrieved for the turn in flight: None when the gate was
\* negative or the retrieval was empty.
OwnContext ==
    IF retrieved.called /\ retrieved.ok /\ Truthy(get_relevant_knowledge(retrieved.docs))
    THEN get_relevant_knowledge(retrieved.docs)
    ELSE None

OwnContextTokens ==
    IF Truthy(OwnContext) THEN calculate_rag_tokens_v1_1(OwnContext.text) ELSE 0

\* C29: the context counted into total_context_tokens_v1_1 for a turn is the
\* context retrieved for that turn, in every interleaving with a turn of
\* another session: the value another turn left in self.rag_content is never
\* counted.
C29_OwnContextCounted ==
    [][ ( /\ pc = "complete" /\ pc' = "add"
          /\ metrics_file' # metrics_file
          /\ sid # parked.sid )
        => Recorded(metrics_file').total_context_tokens_v1_1 =
               Recorded(metrics_file).total_context_tokens_v1_1
                   + calculate_static_prompts_tokens_v1_1(session.messages)
                   + OwnContextTokens ]_vars

\* In the messages, every user message is followed by an assistant message,
\* with at most one system message between the two.
Answered(messages) ==
    \A i \in 1..Len(messages) :
        messages[i].role = "user" =>
            \/ /\ i + 1 <= Len(messages)
               /\ messages[i + 1].role = "assistant"
               /\ i + 2 <= Len(messages) => messages[i + 2].role # "assistant"
            \/ /\ i + 2 <= Len(messages)
               /\ messages[i + 1].role = "system"
               /\ messages[i + 2].role = "assistant"
               /\ i + 3 <= Len(messages) => messages[i + 3].role # "assistant"

\* C30: in every Conversation that a later turn reads, each user message is
\* followed, after at most one retrieval system message, by exactly one
\* assistant message; a turn that failed at the retriever or at the
\* completion call leaves no user message without a reply.
C30_EveryUserMessageAnswered ==
    \A s \in Sessions : Answered(store[s].messages)

\* C31: a turn whose completion call succeeded is recorded once, as a
\* successful turn: no step after the success record (reading the reply
\* text, appending the assistant message, saving the session) makes the
\* same turn be recorded as a failed turn as well.  So the successful and
\* the failed turns recorded are never more than the turns received.
C31_RecordedOnce ==
    v1_0.counters.total_succ_requests_v1_0 + v1_0.counters.failed_requests_v1_0
        <= v1_0.requests

\* C32: session isolation.  A turn of one session reads the Conversation
\* stored for its own session and changes no Conversation stored for another:
\* the stored Conversation of every other session is the same after each
\* step of the turn as before, whether the turn succeeds or fails.
C32_SessionIsolation ==
    [][ /\ \A s \in Sessions : store'[s] # store[s] => (s = sid /\ store'[s] = session)
        /\ (pc = "idle" /\ pc' # "idle") => session' = store[sid'] ]_vars

\* Session s1 has a stored Conversation, and a turn of session s2 that failed
\* has ended and stored its own.
C32_Witness ==
    /\ TurnDone
    /\ sid = "s2"
    /\ outcome = ServiceUnavailable
    /\ store["s1"].has_messages
    /\ Len(store["s1"].messages) = 4
    /\ store["s2"].has_messages
    /\ store["s2"] # store["s1"]

\* The metrics file was out of reach for a recorder call of the turn.
StoreFailedThisTurn == call.op = "metrics_store_fault" /\ call.turn = clock

\* C33: a failure of the metrics store while recording never changes the
\* outcome of the turn: the recorder calls swallow it, and a turn whose
\* completion call succeeded returns the assistant text and saves the
\* Conversation with the reply.
C33_StoreFailureSwallowed ==
    (TurnDone /\ StoreFailedThisTurn) =>
        /\ completed.ok <=> outcome.kind = "assistant"
        /\ completed.ok =>
              /\ outcome = AssistantText(ai_response)
              /\ store[sid] = session
              /\ session.messages[Len(session.messages)] = Message("assistant", ai_response)
        /\ (completed.called /\ ~completed.ok) => outcome = ServiceUnavailable
        /\ (retrieved.called /\ ~retrieved.ok) => outcome = ServiceUnavailable

\* The completion call succeeded, the record of the turn was lost with the
\* file out of reach, and the reply was returned and stored.
C33_Witness ==
    /\ TurnDone
    /\ StoreFailedThisTurn
    /\ completed.ok
    /\ metrics_file = pre.metrics_file
    /\ outcome = AssistantText(ai_response)
    /\ store[sid] = session

\* C34: in every state of the metrics file reached by sequential calls of
\* track_metrics_v1_1, track_empty_retrieval_v1_1, get_metrics_summary_v1_1
\* and load_json_metrics (with migration or recovery), the empty-retrieval
\* log has at most 1000 entries and never more entries than
\* empty_retrieval_count_v1_1.
C34_LogWithinCount ==
    /\ Len(StoredLog(metrics_file)) <= MAX_EMPTY_RETRIEVAL_LOG
    /\ Len(StoredLog(metrics_file)) <= Stored(metrics_file, "empty_retrieval_count_v1_1")

\* C35: in every state of the metrics record reached from a zero record by
\* track_metrics_v1_1 calls, successful_requests_v1_1 is at most
\* total_requests_v1_1, so the success rate of the summary is never above
\* 100 percent.
C35_SuccessfulWithinTotal ==
    /\ Stored(metrics_file, "successful_requests_v1_1")
           <= Stored(metrics_file, "total_requests_v1_1")
    /\ (call.op = "get_metrics_summary_v1_1" /\ ret # NoCall) =>
           /\ "success_rate_v1_1" \in DOMAIN ret
           /\ ret.success_rate_v1_1 <= 1000

\* The summary after a successful and a failed turn recorded from the zero
\* record: 50 percent.
C35_Witness ==
    /\ call.op = "get_metrics_summary_v1_1"
    /\ call.after.op = "track_metrics_v1_1"
    /\ ZeroStored(call.after.file) \/ Stored(call.after.file, "total_requests_v1_1") = 1
    /\ Stored(call.file, "successful_requests_v1_1") = 1
    /\ Stored(call.file, "total_requests_v1_1") = 2
    /\ ret.success_rate_v1_1 = 500

\* The accumulators of the metrics record.
ACCUMULATORS ==
    { "total_requests_v1_1", "successful_requests_v1_1", "total_response_time_v1_1",
      "total_conversation_tokens_v1_1", "total_context_tokens_v1_1", "total_cost_v1_1",
      "empty_retrieval_count_v1_1" }

\* C36: get_metrics_summary_v1_1 changes no accumulator.  When the stored
\* record is readable, the counters, the totals and the empty-retrieval log
\* in the store are the same after the call as before it, and a second call
\* made right after it reports the same values.
C36_SummaryChangesNothing ==
    (call.op = "get_metrics_summary_v1_1" /\ call.file.state = "ok") =>
        /\ metrics_file.state = "ok"
        /\ \A key \in ACCUMULATORS : Stored(metrics_file, key) = Stored(call.file, key)
        /\ StoredLog(metrics_file) = StoredLog(call.file)
        /\ get_metrics_summary_v1_1(metrics_file, clock + 1)
               = get_metrics_summary_v1_1(call.file, clock)

====
